---- MODULE Spec2Model ----
(***************************************************************************)
(* A model of the core-sim crate: the Simulation driver (lib.rs), the      *)
(* avoidance solver (physics.rs) and the flow field (pathfinding/flow.rs). *)
(*                                                                         *)
(* Numbers.  The crate computes in f64.  Here a coordinate, a velocity, a  *)
(* radius or a speed is an integer number of 1/Scale units (fixed point),  *)
(* a quotient is rounded to the nearest unit and a square root is taken to *)
(* the nearest unit.  Comparisons between squared lengths and the sign of  *)
(* a dot product are exact.  Integration costs are small whole numbers and *)
(* are kept unscaled; f64::MAX is F64_MAX.                                 *)
(***************************************************************************)
EXTENDS Integers, Sequences, FiniteSets, TLC

(***************************************************************************)
(* Bounds of the model.                                                    *)
(***************************************************************************)
\* fixed-point resolution: units per 1.0
Scale == 100
\* side of the simulation's flow field (lib.rs builds 100 x 100)
GridSize == 3
\* most agents ever added
MaxAgents == 2
\* ticks are taken while tick_count < MaxTick
MaxTick == 2
\* rounding slack, in units, of one renormalisation in fixed point
Eps == 2
MaxWalls == 2
ScenarioSize == 5
MaxCost == 3
\* walls set on a grid before HPAGrid::build
MaxBlocked == 2
\* squares along a side of the largest navmesh block
MeshSide == 2
\* side of a square of a navmesh block, in whole units of length
SquareSide == 50
\* distance between the two agents of the head-on run, in whole units
HeadOnGap == 5
\* steps of a run of the avoidance solver
HeadOnSteps == 10

\* f64::MAX, the "unreached" integration value
F64_MAX == 2147483647
\* cost of a wall cell
WALL == 255

(***************************************************************************)
(* glam::DVec2 and f64 helpers                                             *)
(***************************************************************************)
DVec2(x, y) == [x |-> x, y |-> y]

ZERO == DVec2(0, 0)

\* n / d rounded to the nearest integer (d > 0), halves away from zero
RDiv(n, d) == IF n >= 0 THEN (2 * n + d) \div (2 * d)
              ELSE -((2 * (-n) + d) \div (2 * d))

RECURSIVE SqrtSearch(_, _, _)
SqrtSearch(n, lo, hi) ==
    IF lo >= hi THEN lo
    ELSE LET mid == (lo + hi + 1) \div 2
         IN  IF mid * mid <= n THEN SqrtSearch(n, mid, hi)
             ELSE SqrtSearch(n, lo, mid - 1)

\* floor of the square root
FloorSqrt(n) == SqrtSearch(n, 0, 46340)

\* square root to the nearest unit
Sqrt(n) == LET f == FloorSqrt(n)
           IN  IF n - f * f > f THEN f + 1 ELSE f

Dot(a, b) == a.x * b.x + a.y * b.y

\* DVec2::length_squared, in units squared
LengthSquared(v) == Dot(v, v)

VAdd(a, b) == DVec2(a.x + b.x, a.y + b.y)

VSub(a, b) == DVec2(a.x - b.x, a.y - b.y)

VNeg(a) == DVec2(-a.x, -a.y)

\* v * s for a scalar s held in units
VScale(v, s) == DVec2(RDiv(v.x * s, Scale), RDiv(v.y * s, Scale))

\* v.normalize() * s: a vector of length s along v (v # 0)
NormalizeTimes(v, s) ==
    LET len == Sqrt(LengthSquared(v))
    IN  DVec2(RDiv(v.x * s, len), RDiv(v.y * s, len))

\* f64::round() as usize: halves away from zero, then a saturating cast, so
\* every negative coordinate becomes 0
RoundAsUsize(x) == IF x < 0 THEN 0 ELSE (2 * x + Scale) \div (2 * Scale)

(***************************************************************************)
(* pathfinding/flow.rs: FlowField                                          *)
(***************************************************************************)
\* FlowField::new
FlowFieldNew(width, height) ==
    [width       |-> width,
     height      |-> height,
     costs       |-> [i \in 0..(width * height - 1) |-> 1],
     integration |-> [i \in 0..(width * height - 1) |-> F64_MAX],
     vectors     |-> [i \in 0..(width * height - 1) |-> ZERO]]

\* `nx < self.width && ny < self.height` after `(c as isize + d) as usize`:
\* a negative sum wraps to a huge usize and fails the test
InField(ff, nx, ny) == nx >= 0 /\ nx < ff.width /\ ny >= 0 /\ ny < ff.height

\* FlowField::set_obstacle
SetObstacle(ff, x, y, is_wall) ==
    IF x < ff.width /\ y < ff.height
    THEN [ff EXCEPT !.costs[y * ff.width + x] = IF is_wall THEN WALL ELSE 1]
    ELSE ff

\* faulty variant of the offsets: the step to the left is missing
DijkstraNeighborsNoLeft == <<DVec2(0, 1), DVec2(1, 0), DVec2(0, -1)>>

\* the offsets generate_target relaxes, in its order
DijkstraNeighbors == <<DVec2(0, 1), DVec2(1, 0), DVec2(0, -1), DVec2(-1, 0)>>

\* one pass of the inner `for (dx, dy) in neighbors` from neighbour k on;
\* st = [integration, heap], heap a set of State records
RECURSIVE RelaxFrom(_, _, _, _, _)
RelaxFrom(ff, st, cost, index, k) ==
    IF k > Len(DijkstraNeighbors) THEN st
    ELSE LET cx == index % ff.width
             cy == index \div ff.width
             nx == cx + DijkstraNeighbors[k].x
             ny == cy + DijkstraNeighbors[k].y
             n_idx == ny * ff.width + nx
             relaxed ==
                 IF InField(ff, nx, ny) /\ ff.costs[n_idx] < WALL
                    /\ cost + ff.costs[n_idx] < st.integration[n_idx]
                 THEN [integration |->
                          [st.integration EXCEPT ![n_idx] = cost + ff.costs[n_idx]],
                       heap |-> st.heap \cup
                          {[cost |-> cost + ff.costs[n_idx], index |-> n_idx]}]
                 ELSE st
         IN  RelaxFrom(ff, relaxed, cost, index, k + 1)

\* BinaryHeap::pop with the reversed Ord of State: an entry of least cost
\* (which of several equal-cost entries comes first is the heap's business;
\* the least index is taken here)
HeapPop(heap) ==
    CHOOSE s \in heap : \A t \in heap :
        s.cost < t.cost \/ (s.cost = t.cost /\ s.index <= t.index)

\* one iteration of the `while let Some(State { cost, index }) = heap.pop()`
\* loop
DijkstraStep(ff, st) ==
    LET s == HeapPop(st.heap)
        rest == [st EXCEPT !.heap = st.heap \ {s}]
    IN  IF s.cost > st.integration[s.index] THEN rest
        ELSE RelaxFrom(ff, rest, s.cost, s.index, 1)

\* up to n iterations of the loop, fewer if the heap runs empty (the halves
\* are run one after the other)
RECURSIVE DijkstraSteps(_, _, _)
DijkstraSteps(ff, st, n) ==
    IF st.heap = {} \/ n = 0 THEN st
    ELSE IF n = 1 THEN DijkstraStep(ff, st)
    ELSE DijkstraSteps(ff, DijkstraSteps(ff, st, n \div 2), n - n \div 2)

\* the loop, run until the heap is empty
RECURSIVE DijkstraLoop(_, _)
DijkstraLoop(ff, st) ==
    LET ran == DijkstraSteps(ff, st, ff.width * ff.height)
    IN  IF ran.heap = {} THEN ran.integration ELSE DijkstraLoop(ff, ran)

\* faulty variant of the scan order: right before up
GradientNeighborsRightFirst == <<DVec2(1, 0), DVec2(0, -1), DVec2(0, 1), DVec2(-1, 0)>>

\* the neighbours generate_vectors scans, in its order: up, right, down, left
GradientNeighbors == <<DVec2(0, -1), DVec2(1, 0), DVec2(0, 1), DVec2(-1, 0)>>

\* the scan of one cell from neighbour k on; acc = [best_cost, grad]
RECURSIVE GradientFrom(_, _, _, _, _)
GradientFrom(ff, x, y, acc, k) ==
    IF k > Len(GradientNeighbors) THEN acc.grad
    ELSE LET nx == x + GradientNeighbors[k].x
             ny == y + GradientNeighbors[k].y
             n_idx == ny * ff.width + nx
             next ==
                 IF InField(ff, nx, ny) /\ ff.integration[n_idx] < acc.best_cost
                 THEN [best_cost |-> ff.integration[n_idx],
                       grad |-> DVec2(GradientNeighbors[k].x * Scale,
                                      GradientNeighbors[k].y * Scale)]
                 ELSE acc
         IN  GradientFrom(ff, x, y, next, k + 1)

\* FlowField::generate_vectors
GenerateVectors(ff) ==
    [ff EXCEPT !.vectors =
        [idx \in 0..(ff.width * ff.height - 1) |->
            IF ff.costs[idx] = WALL THEN ZERO
            ELSE GradientFrom(ff, idx % ff.width, idx \div ff.width,
                              [best_cost |-> ff.integration[idx], grad |-> ZERO], 1)]]

\* faulty variant of generate_target: the integration field is not reset, only
\* the target is set to 0
GenerateTargetNoReset(ff, target_x, target_y) ==
    LET tx == RoundAsUsize(target_x)
        ty == RoundAsUsize(target_y)
        target_idx == ty * ff.width + tx
    IN  IF tx >= ff.width \/ ty >= ff.height THEN ff
        ELSE GenerateVectors(
                 [ff EXCEPT !.integration =
                     DijkstraLoop(ff, [integration |->
                                           [ff.integration EXCEPT ![target_idx] = 0],
                                       heap |-> {[cost |-> 0, index |-> target_idx]}])])

\* FlowField::generate_target
GenerateTarget(ff, target_x, target_y) ==
    LET tx == RoundAsUsize(target_x)
        ty == RoundAsUsize(target_y)
        target_idx == ty * ff.width + tx
        reset == [i \in 0..(ff.width * ff.height - 1) |->
                     IF i = target_idx THEN 0 ELSE F64_MAX]
    IN  IF tx >= ff.width \/ ty >= ff.height THEN ff
        ELSE GenerateVectors(
                 [ff EXCEPT !.integration =
                     DijkstraLoop(ff, [integration |-> reset,
                                       heap |-> {[cost |-> 0, index |-> target_idx]}])])

\* FlowField::get_direction
GetDirection(ff, x, y) ==
    LET ix == RoundAsUsize(x)
        iy == RoundAsUsize(y)
    IN  IF ix >= ff.width \/ iy >= ff.height THEN ZERO
        ELSE ff.vectors[iy * ff.width + ix]

(***************************************************************************)
(* physics.rs: Agent and RvoManager                                        *)
(***************************************************************************)
\* the Agent struct
Agent(id, position, velocity, radius, max_speed, pref_velocity) ==
    [id |-> id, position |-> position, velocity |-> velocity, radius |-> radius,
     max_speed |-> max_speed, pref_velocity |-> pref_velocity]

\* RvoManager::add_agent
RvoAddAgent(as, agent) == Append(as, agent)

\* index of the first agent carrying id (iter_mut().find), 0 when none does
FindAgent(as, id) ==
    IF \E i \in 1..Len(as) : as[i].id = id
    THEN CHOOSE i \in 1..Len(as) :
             as[i].id = id /\ \A j \in 1..(i - 1) : as[j].id # id
    ELSE 0

\* RvoManager::update_agent_state
UpdateAgentState(as, id, pos, pref_vel) ==
    LET i == FindAgent(as, id)
    IN  IF i = 0 THEN as
        ELSE [as EXCEPT ![i].position = pos, ![i].pref_velocity = pref_vel]

\* the body of `for (i, other) in self.agents.iter().enumerate()` for one
\* neighbour: the velocity after folding other into new_vel
FoldNeighbor(agent, other, new_vel) ==
    LET dist_sq == LengthSquared(VSub(agent.position, other.position))
        combined_radius == agent.radius + other.radius
        rel_pos == VSub(other.position, agent.position)
        rel_vel == VSub(agent.velocity, other.velocity)
        dist == Sqrt(dist_sq)
        \* normalize() of (-rel_pos.y, rel_pos.x); only its direction is kept
        tangent == DVec2(-rel_pos.y, rel_pos.x)
        steer_dir == IF Dot(new_vel, tangent) > 0 THEN tangent ELSE VNeg(tangent)
        \* steer_dir.normalize() * 2 * (1 - dist / (combined_radius * 3))
        steer(c) == RDiv(c * 2 * (3 * combined_radius - dist) * Scale,
                         dist * 3 * combined_radius)
    IN  IF dist_sq > (combined_radius * 2) * (combined_radius * 2) THEN new_vel
        ELSE IF FloorSqrt(dist_sq) < combined_radius
        THEN \* already colliding: rel_pos.normalize_or_zero() * -1 * max_speed
             IF dist_sq = 0 THEN new_vel
             ELSE VAdd(new_vel, NormalizeTimes(VNeg(rel_pos), agent.max_speed))
        ELSE \* proj = rel_vel.dot(rel_pos) / dist_sq; 0/0 is NaN and NaN > 0 fails
             IF dist_sq > 0 /\ Dot(rel_vel, rel_pos) > 0
             THEN VAdd(new_vel, DVec2(steer(steer_dir.x), steer(steer_dir.y)))
             ELSE new_vel

RECURSIVE FoldNeighborsFrom(_, _, _, _)
FoldNeighborsFrom(as, agent_idx, i, new_vel) ==
    IF i > Len(as) THEN new_vel
    ELSE IF i = agent_idx THEN FoldNeighborsFrom(as, agent_idx, i + 1, new_vel)
    ELSE FoldNeighborsFrom(as, agent_idx, i + 1,
                           FoldNeighbor(as[agent_idx], as[i], new_vel))

\* faulty variant of the clamp: the speed limit is never applied
ClampToMaxSpeedOff(new_vel, max_speed) == new_vel

\* the final clamp of compute_new_velocity
ClampToMaxSpeed(new_vel, max_speed) ==
    IF LengthSquared(new_vel) > max_speed * max_speed
    THEN NormalizeTimes(new_vel, max_speed)
    ELSE new_vel

\* RvoManager::compute_new_velocity
ComputeNewVelocity(as, agent_idx) ==
    ClampToMaxSpeed(
        FoldNeighborsFrom(as, agent_idx, 1, as[agent_idx].pref_velocity),
        as[agent_idx].max_speed)

(***************************************************************************)
(* lib.rs: the Simulation driver                                           *)
(***************************************************************************)
VARIABLES
    tick_count,     \* Simulation.tick_count
    export_buffer,  \* Simulation.export_buffer, a sequence of f64
    flow_field,     \* Simulation.flow_field
    nav_mesh,       \* Simulation.nav_mesh, its triangle list
    agents,         \* Simulation.rvo.agents
    snap,           \* the JsValue the host holds from get_snapshot, <<>> if none
    snap_state,     \* history: the state get_snapshot was called in
    last            \* history: the call that produced this state

vars == <<tick_count, export_buffer, flow_field, nav_mesh, agents, snap,
          snap_state, last>>

\* The text handed to tick is a JSON document.  doc.kind = "array" is a JSON
\* array whose items are objects (records holding the keys they carry);
\* anything else is not a command list.
RequiredKeys == {"id", "action", "target_x", "target_y"}

\* serde's derive(Deserialize) for InputCommand: mode is an Option, a missing
\* key is None (<<>>), a present one is Some (<<m>>)
InputCommand(obj) ==
    [id |-> obj.id, action |-> obj.action, target_x |-> obj.target_x,
     target_y |-> obj.target_y,
     mode |-> IF "mode" \in DOMAIN obj THEN <<obj.mode>> ELSE <<>>]

\* faulty variant of the parse: an item that is no InputCommand is skipped
\* and the rest of the array is kept
ParseInputSkipBad(doc) ==
    IF doc.kind = "array"
    THEN LET good == SelectSeq(doc.items, LAMBDA o : RequiredKeys \subseteq DOMAIN o)
         IN  [k \in 1..Len(good) |-> InputCommand(good[k])]
    ELSE <<>>

\* serde_json::from_str::<Vec<InputCommand>>(..).unwrap_or_default(): one
\* item that is no InputCommand fails the whole document
ParseInput(doc) ==
    IF doc.kind = "array"
       /\ \A k \in 1..Len(doc.items) : RequiredKeys \subseteq DOMAIN doc.items[k]
    THEN [k \in 1..Len(doc.items) |-> InputCommand(doc.items[k])]
    ELSE <<>>

\* the body of `for input in inputs` for one command; st = [flow_field, agents]
ProcessInput(st, input) ==
    IF input.action = "MOVE"
    THEN IF input.mode = <<"FLOW">>
         THEN [st EXCEPT !.flow_field =
                  GenerateTarget(st.flow_field, input.target_x, input.target_y)]
         ELSE [st EXCEPT !.agents =
                  UpdateAgentState(st.agents, input.id,
                                   DVec2(input.target_x, input.target_y), ZERO)]
    ELSE st

RECURSIVE ProcessInputsFrom(_, _, _)
ProcessInputsFrom(st, inputs, k) ==
    IF k > Len(inputs) THEN st
    ELSE ProcessInputsFrom(ProcessInput(st, inputs[k]), inputs, k + 1)

\* step 2 of tick: every agent's preferred velocity from the tile under it
SetPreferredVelocities(ff, as) ==
    [i \in 1..Len(as) |->
        [as[i] EXCEPT !.pref_velocity =
            VScale(GetDirection(ff, as[i].position.x, as[i].position.y),
                   as[i].max_speed)]]

\* step 3 of tick: all new velocities, computed before any is written
NewVelocities(as) == [i \in 1..Len(as) |-> ComputeNewVelocity(as, i)]

\* faulty variant of step 4 of tick: the velocity is written, the position
\* is not advanced
IntegrateVelocityOnly(as, new_velocities) ==
    [i \in 1..Len(as) |-> [as[i] EXCEPT !.velocity = new_velocities[i]]]

\* step 4 of tick
Integrate(as, new_velocities) ==
    [i \in 1..Len(as) |->
        [as[i] EXCEPT !.velocity = new_velocities[i],
                      !.position = VAdd(as[i].position, new_velocities[i])]]

\* faulty variant of the export: the preferred velocity is written
ExportTuplePreferred(a) ==
    <<a.id, a.position.x, a.position.y, a.pref_velocity.x, a.pref_velocity.y>>

\* the five f64 of one agent
ExportTuple(a) == <<a.id, a.position.x, a.position.y, a.velocity.x, a.velocity.y>>

\* Simulation::rebuild_export_buffer
RECURSIVE RebuildExportBuffer(_)
RebuildExportBuffer(as) ==
    IF as = <<>> THEN <<>>
    ELSE ExportTuple(Head(as)) \o RebuildExportBuffer(Tail(as))

\* the state of the commands loop of tick, then its agents after steps 2 to 4
AfterInputs(ff, as, doc) ==
    ProcessInputsFrom([flow_field |-> ff, agents |-> as], ParseInput(doc), 1)

\* faulty variant of steps 3 and 4 of tick: each agent is written as soon
\* as its new velocity is computed, so the agents after it read its new state
RECURSIVE WriteInPlaceFrom(_, _)
WriteInPlaceFrom(as, i) ==
    IF i > Len(as) THEN as
    ELSE LET vel == ComputeNewVelocity(as, i)
         IN  WriteInPlaceFrom([as EXCEPT ![i].velocity = vel,
                                         ![i].position = VAdd(@, vel)], i + 1)

TickAgentsInPlace(ff, as) == WriteInPlaceFrom(SetPreferredVelocities(ff, as), 1)

TickAgents(ff, as) ==
    LET staged == SetPreferredVelocities(ff, as)
    IN  Integrate(staged, NewVelocities(staged))

(***************************************************************************)
(* Snapshots: serde (derive Serialize / Deserialize) through               *)
(* serde_wasm_bindgen.  A struct becomes a JS object keyed by its field    *)
(* names, a Vec or an array a JS array (here a sequence from 1), a DVec2   *)
(* the two-element array [x, y], an Option either null (<<>>) or the value.*)
(***************************************************************************)
SerVec(v) == <<v.x, v.y>>

DeVec(j) == DVec2(j[1], j[2])

\* a Vec of numbers (a function on 0..n-1) to a JS array and back
SerNumbers(f, n) == [k \in 1..n |-> f[k - 1]]

DeNumbers(j) == [i \in 0..(Len(j) - 1) |-> j[i + 1]]

\* a Vec<DVec2> to a JS array of pairs and back
SerVecs(f, n) == [k \in 1..n |-> SerVec(f[k - 1])]

DeVecs(j) == [i \in 0..(Len(j) - 1) |-> DeVec(j[i + 1])]

SerAgent(a) ==
    [id |-> a.id, position |-> SerVec(a.position), velocity |-> SerVec(a.velocity),
     radius |-> a.radius, max_speed |-> a.max_speed,
     pref_velocity |-> SerVec(a.pref_velocity)]

DeAgent(j) ==
    Agent(j.id, DeVec(j.position), DeVec(j.velocity), j.radius, j.max_speed,
          DeVec(j.pref_velocity))

SerFlowField(ff) ==
    [width |-> ff.width, height |-> ff.height,
     costs |-> SerNumbers(ff.costs, ff.width * ff.height),
     integration |-> SerNumbers(ff.integration, ff.width * ff.height),
     vectors |-> SerVecs(ff.vectors, ff.width * ff.height)]

DeFlowField(j) ==
    [width |-> j.width, height |-> j.height,
     costs |-> DeNumbers(j.costs),
     integration |-> DeNumbers(j.integration),
     vectors |-> DeVecs(j.vectors)]

\* a Triangle is [id, vertices, neighbors], the last two sequences of three
SerTriangle(t) ==
    [id |-> t.id, vertices |-> [k \in 1..3 |-> SerVec(t.vertices[k])],
     neighbors |-> t.neighbors]

DeTriangle(j) ==
    [id |-> j.id, vertices |-> [k \in 1..3 |-> DeVec(j.vertices[k])],
     neighbors |-> j.neighbors]

SerNavMesh(nm) == [triangles |-> [k \in 1..Len(nm) |-> SerTriangle(nm[k])]]

DeNavMesh(j) == [k \in 1..Len(j.triangles) |-> DeTriangle(j.triangles[k])]

\* serde_wasm_bindgen::to_value(&SimSnapshot { .. })
ToValue(tc, as, ff, nm) ==
    [tick_count |-> tc,
     rvo |-> [agents |-> [k \in 1..Len(as) |-> SerAgent(as[k])]],
     flow_field |-> SerFlowField(ff),
     nav_mesh |-> SerNavMesh(nm)]

\* serde_wasm_bindgen::from_value::<SimSnapshot>(val)
FromValue(val) ==
    [tick_count |-> val.tick_count,
     agents |-> [k \in 1..Len(val.rvo.agents) |-> DeAgent(val.rvo.agents[k])],
     flow_field |-> DeFlowField(val.flow_field),
     nav_mesh |-> DeNavMesh(val.nav_mesh)]

(***************************************************************************)
(* remap_ids                                                               *)
(***************************************************************************)
\* the HashMap built by the insert loop: a later insert of a key replaces
\* the earlier one; here the map is the function key -> last value
RemapTable(old_ids, new_ids) ==
    [key \in {old_ids[k] : k \in 1..Len(old_ids)} |->
        new_ids[CHOOSE k \in 1..Len(old_ids) :
                    old_ids[k] = key
                    /\ \A m \in (k + 1)..Len(old_ids) : old_ids[m] # key]]

\* faulty variant of the rewrite: a new id that is itself a key is mapped again
RemapAgentsChained(as, map) ==
    [i \in 1..Len(as) |->
        IF as[i].id \in DOMAIN map
        THEN [as[i] EXCEPT !.id = IF map[as[i].id] \in DOMAIN map
                                  THEN map[map[as[i].id]] ELSE map[as[i].id]]
        ELSE as[i]]

\* `for agent in &mut self.rvo.agents`
RemapAgents(as, map) ==
    [i \in 1..Len(as) |->
        IF as[i].id \in DOMAIN map THEN [as[i] EXCEPT !.id = map[as[i].id]]
        ELSE as[i]]

(***************************************************************************)
(* The calls the host makes                                                *)
(***************************************************************************)
\* what add_agent is called with (the spec's agents have radius > 0 and a
\* max_speed that is not negative)
AddCalls ==
    {[id |-> 1, pos |-> DVec2(0, 0), radius |-> Scale \div 2, max_speed |-> Scale],
     [id |-> 2, pos |-> DVec2(2 * Scale, 0), radius |-> Scale \div 2,
      max_speed |-> Scale \div 2],
     [id |-> 1, pos |-> DVec2(2 * Scale, 0), radius |-> Scale \div 2,
      max_speed |-> Scale \div 2]}

\* JSON objects of the command stream
FlowMove(tx, ty) ==
    [id |-> 0, action |-> "MOVE", target_x |-> tx, target_y |-> ty, mode |-> "FLOW"]

DirectMove(id, tx, ty) ==
    [id |-> id, action |-> "MOVE", target_x |-> tx, target_y |-> ty]

ModeMove(id, tx, ty, mode) ==
    [id |-> id, action |-> "MOVE", target_x |-> tx, target_y |-> ty, mode |-> mode]

\* an object that is no InputCommand: target_y is missing
NoTargetY(id) == [id |-> id, action |-> "MOVE", target_x |-> 0]

Array(items) == [kind |-> "array", items |-> items]

\* a text that is not a JSON array
NotAnArray == [kind |-> "text", items |-> <<>>]

MalformedDocs == {NotAnArray, Array(<<DirectMove(1, Scale, Scale), NoTargetY(1)>>)}

TickDocs ==
    MalformedDocs \cup
    {Array(<<>>),
     Array(<<FlowMove(2 * Scale, 0)>>),
     Array(<<ModeMove(1, 0, Scale, "DIRECT"), DirectMove(1, 0, 0)>>)}

\* what remap_ids is called with
RemapCalls ==
    {[old_ids |-> <<1>>, new_ids |-> <<2>>],
     [old_ids |-> <<1, 2>>, new_ids |-> <<2, 1>>],
     [old_ids |-> <<1, 1>>, new_ids |-> <<2, 3>>],
     [old_ids |-> <<1>>, new_ids |-> <<>>]}

\* Simulation::new
Init ==
    /\ tick_count = 0
    /\ export_buffer = <<>>
    /\ flow_field = FlowFieldNew(GridSize, GridSize)
    /\ nav_mesh = <<>>
    /\ agents = <<>>
    /\ snap = <<>>
    /\ snap_state = <<>>
    /\ last = [op |-> "new"]

\* Simulation::add_agent
AddAgent(id, pos, radius, max_speed) ==
    /\ Len(agents) < MaxAgents
    /\ agents' = RvoAddAgent(agents, Agent(id, pos, ZERO, radius, max_speed, ZERO))
    /\ last' = [op |-> "add_agent", id |-> id]
    /\ UNCHANGED <<tick_count, export_buffer, flow_field, nav_mesh, snap, snap_state>>

\* the body of Simulation::tick, taken while tick_count < max
TickWithin(doc, max) ==
    /\ tick_count < max
    /\ LET st == AfterInputs(flow_field, agents, doc)
           moved == TickAgents(st.flow_field, st.agents)
       IN  /\ tick_count' = tick_count + 1
           /\ flow_field' = st.flow_field
           /\ agents' = moved
           /\ export_buffer' = RebuildExportBuffer(moved)
    /\ UNCHANGED <<nav_mesh, snap, snap_state>>

\* Simulation::tick
Tick(doc) ==
    /\ TickWithin(doc, MaxTick)
    /\ last' = [op |-> "tick", doc |-> doc]

\* Simulation::get_snapshot; the host keeps the value
GetSnapshot ==
    /\ snap = <<>>
    /\ snap' = <<ToValue(tick_count, agents, flow_field, nav_mesh)>>
    /\ snap_state' = [tick_count |-> tick_count, agents |-> agents,
                      flow_field |-> flow_field, nav_mesh |-> nav_mesh,
                      export_buffer |-> export_buffer]
    /\ last' = [op |-> "get_snapshot"]
    /\ UNCHANGED <<tick_count, export_buffer, flow_field, nav_mesh, agents>>

\* faulty variant of load_snapshot: the export buffer is not rebuilt
LoadSnapshotNoRebuild ==
    /\ snap # <<>>
    /\ LET s == FromValue(snap[1])
       IN  /\ tick_count' = s.tick_count
           /\ agents' = s.agents
           /\ flow_field' = s.flow_field
           /\ nav_mesh' = s.nav_mesh
           /\ export_buffer' = export_buffer
    /\ last' = [op |-> "load_snapshot", from_tick |-> tick_count,
                 from_agents |-> Len(agents)]
    /\ UNCHANGED <<snap, snap_state>>

\* Simulation::load_snapshot of the value the host holds
LoadSnapshot ==
    /\ snap # <<>>
    /\ LET s == FromValue(snap[1])
       IN  /\ tick_count' = s.tick_count
           /\ agents' = s.agents
           /\ flow_field' = s.flow_field
           /\ nav_mesh' = s.nav_mesh
           /\ export_buffer' = RebuildExportBuffer(s.agents)
    /\ last' = [op |-> "load_snapshot", from_tick |-> tick_count,
                 from_agents |-> Len(agents)]
    /\ UNCHANGED <<snap, snap_state>>

\* faulty variant of remap_ids: no early return on a length mismatch, the ids
\* are paired as far as both sequences reach and the buffer is rebuilt
RemapIdsZipped(old_ids, new_ids) ==
    /\ LET n == IF Len(old_ids) < Len(new_ids) THEN Len(old_ids) ELSE Len(new_ids)
           remapped == RemapAgents(agents, RemapTable(SubSeq(old_ids, 1, n),
                                                      SubSeq(new_ids, 1, n)))
       IN  /\ agents' = remapped
           /\ export_buffer' = RebuildExportBuffer(remapped)
    /\ last' = [op |-> "remap_ids", old_ids |-> old_ids, new_ids |-> new_ids]
    /\ UNCHANGED <<tick_count, flow_field, nav_mesh, snap, snap_state>>

\* Simulation::remap_ids
RemapIds(old_ids, new_ids) ==
    /\ IF Len(old_ids) # Len(new_ids)
       THEN UNCHANGED <<agents, export_buffer>>
       ELSE LET remapped == RemapAgents(agents, RemapTable(old_ids, new_ids))
            IN  /\ agents' = remapped
                /\ export_buffer' = RebuildExportBuffer(remapped)
    /\ last' = [op |-> "remap_ids", old_ids |-> old_ids, new_ids |-> new_ids]
    /\ UNCHANGED <<tick_count, flow_field, nav_mesh, snap, snap_state>>

\* load_snapshot(get_snapshot()): get_snapshot takes &self and changes
\* nothing of the simulation, so the pair is one step of it
SnapshotRoundTrip ==
    /\ LET s == FromValue(ToValue(tick_count, agents, flow_field, nav_mesh))
       IN  /\ tick_count' = s.tick_count
           /\ agents' = s.agents
           /\ flow_field' = s.flow_field
           /\ nav_mesh' = s.nav_mesh
           /\ export_buffer' = RebuildExportBuffer(s.agents)
    /\ last' = [op |-> "round_trip"]
    /\ UNCHANGED <<snap, snap_state>>

\* The driver under every call but a kept snapshot
Next ==
    \/ \E c \in AddCalls : AddAgent(c.id, c.pos, c.radius, c.max_speed)
    \/ \E doc \in TickDocs : Tick(doc)
    \/ \E c \in RemapCalls : RemapIds(c.old_ids, c.new_ids)
    \/ SnapshotRoundTrip

Spec == Init /\ [][Next]_vars

\* The driver with a snapshot the host keeps and loads later (rewind), under
\* fewer kinds of tick and remap_ids call
RewindDocs == {Array(<<>>), Array(<<FlowMove(2 * Scale, 0)>>), Array(<<DirectMove(1, 0, 0)>>)}

RewindAdds == {c \in AddCalls : c.id = 1}

RewindRemaps == {[old_ids |-> <<1>>, new_ids |-> <<2>>]}

NextRewind ==
    \/ \E c \in RewindAdds : AddAgent(c.id, c.pos, c.radius, c.max_speed)
    \/ \E doc \in RewindDocs : Tick(doc)
    \/ \E c \in RewindRemaps : RemapIds(c.old_ids, c.new_ids)
    \/ GetSnapshot
    \/ LoadSnapshot

SpecRewind == Init /\ [][NextRewind]_vars

(***************************************************************************)
(* Properties                                                              *)
(***************************************************************************)
\* buf is one 5-tuple [id, x, y, vx, vy] per agent of as, in order
HoldsTuples(buf, as) ==
    /\ Len(buf) = 5 * Len(as)
    /\ \A i \in 1..Len(as) :
          /\ buf[5 * (i - 1) + 1] = as[i].id
          /\ buf[5 * (i - 1) + 2] = as[i].position.x
          /\ buf[5 * (i - 1) + 3] = as[i].position.y
          /\ buf[5 * (i - 1) + 4] = as[i].velocity.x
          /\ buf[5 * (i - 1) + 5] = as[i].velocity.y

\* C2: right after every tick, whatever its input, the export buffer has
\* length 5 x agent_count and elements 5i..5i+4 are agent i's id, position
\* and velocity as the tick's integration step left them.
C2_ExportAfterTick == last.op = "tick" => HoldsTuples(export_buffer, agents)

C2_Witness ==
    /\ last.op = "tick"
    /\ last.doc \in MalformedDocs
    /\ Len(agents) = 2
    /\ \E i \in 1..Len(agents) : agents[i].velocity # ZERO

\* C3: in every reachable state the exported region holds one 5-tuple per
\* agent in insertion order; in particular right after add_agent.
C3_ExportAlwaysCurrent == HoldsTuples(export_buffer, agents)

\* C4: load_snapshot(get_snapshot()) changes neither the tick count, the
\* agents, the flow field, the navmesh nor the exported buffer.
C4_RoundTripNoOp ==
    [][last'.op = "round_trip" =>
          UNCHANGED <<tick_count, agents, flow_field, nav_mesh, export_buffer>>]_vars

C6_SpeedBounded ==
    \A i \in 1..Len(agents) :
        LengthSquared(agents[i].velocity)
            <= (agents[i].max_speed + Eps) * (agents[i].max_speed + Eps)

\* an agent steered off its preferred velocity by a neighbour and moving at
\* full speed
C6_Witness ==
    /\ last.op = "tick"
    /\ Len(agents) = 2
    /\ \E i \in 1..Len(agents) :
          /\ agents[i].velocity # agents[i].pref_velocity
          /\ agents[i].velocity.x # 0 /\ agents[i].velocity.y # 0
          /\ LengthSquared(agents[i].velocity)
                >= (agents[i].max_speed - Eps) * (agents[i].max_speed - Eps)

\* C7: no two agents ever carry the same id.
C7_IdsUnique ==
    \A i, j \in 1..Len(agents) : i # j => agents[i].id # agents[j].id

\* C8: every tick adds one to the tick count; a tick whose input is no
\* command list retargets nothing and relocates nobody, and still assigns
\* preferred velocities, runs avoidance and integration (from the positions
\* and flow field as they were) and rebuilds the export buffer.
C8_MalformedIsEmpty ==
    [][last'.op = "tick" =>
          /\ tick_count' = tick_count + 1
          /\ last'.doc \in MalformedDocs =>
                /\ flow_field' = flow_field
                /\ agents' = TickAgents(flow_field, agents)
                /\ \A i \in 1..Len(agents) :
                      /\ agents'[i].position =
                            VAdd(agents[i].position, agents'[i].velocity)
                      /\ agents'[i].pref_velocity =
                            VScale(GetDirection(flow_field, agents[i].position.x,
                                                agents[i].position.y),
                                   agents[i].max_speed)
                /\ HoldsTuples(export_buffer', agents')]_vars

\* a tick on an array with one bad item, with agent 1 present and moving
C8_Witness ==
    /\ last.op = "tick"
    /\ last.doc = Array(<<DirectMove(1, Scale, Scale), NoTargetY(1)>>)
    /\ tick_count = 2
    /\ \E i \in 1..Len(agents) : agents[i].id = 1 /\ agents[i].velocity # ZERO

\* C9: a tick given MOVE commands without FLOW mode for agent 1, the last to
\* (0, 0), runs its avoidance step on agent 1 standing at (0, 0) with zero
\* velocity, the other agents as they were.
C9_DirectMoveZeroesVelocity ==
    [][(last'.op = "tick"
        /\ last'.doc = Array(<<ModeMove(1, 0, Scale, "DIRECT"), DirectMove(1, 0, 0)>>)
        /\ FindAgent(agents, 1) # 0) =>
          agents' = TickAgents(flow_field,
                        [agents EXCEPT ![FindAgent(agents, 1)].position = ZERO,
                                       ![FindAgent(agents, 1)].velocity = ZERO])]_vars

\* the id remap_ids gives an agent carrying id: the new id at the (last)
\* index of id in old_ids, or id itself when old_ids does not hold it
RemappedId(id, old_ids, new_ids) ==
    IF \E k \in 1..Len(old_ids) : old_ids[k] = id
    THEN new_ids[CHOOSE k \in 1..Len(old_ids) :
                     old_ids[k] = id /\ \A m \in 1..Len(old_ids) : old_ids[m] = id => m <= k]
    ELSE id

\* C10: remap_ids with sequences of equal length gives every agent whose id
\* is in old_ids the new id at that index, all at once (a swap exchanges two
\* ids), changes no other id, keeps tick count, order, positions, velocities,
\* radius and max_speed, and rebuilds the export buffer with the new ids.
C10_RemapRewritesIds ==
    [][(last'.op = "remap_ids" /\ Len(last'.old_ids) = Len(last'.new_ids)) =>
          /\ tick_count' = tick_count
          /\ Len(agents') = Len(agents)
          /\ \A i \in 1..Len(agents) :
                /\ agents'[i].id = RemappedId(agents[i].id, last'.old_ids, last'.new_ids)
                /\ agents'[i] = [agents[i] EXCEPT !.id = agents'[i].id]
          /\ HoldsTuples(export_buffer', agents')]_vars

\* two agents after the swap {1 -> 2, 2 -> 1}, the second having moved
C10_Witness ==
    /\ last.op = "remap_ids"
    /\ last.old_ids = <<1, 2>> /\ last.new_ids = <<2, 1>>
    /\ Len(agents) = 2
    /\ agents[1].id = 2 /\ agents[2].id = 1
    /\ export_buffer[1] = 2 /\ export_buffer[6] = 1
    /\ tick_count > 0

\* C11: remap_ids with old_ids and new_ids of different lengths changes
\* nothing: no agent (so no agent id), not the tick count, and the export
\* buffer is left exactly as it was.
C11_MismatchedRemapIsNoOp ==
    [][(last'.op = "remap_ids" /\ Len(last'.old_ids) # Len(last'.new_ids)) =>
          /\ agents' = agents
          /\ tick_count' = tick_count
          /\ export_buffer' = export_buffer
          /\ flow_field' = flow_field
          /\ nav_mesh' = nav_mesh]_vars

\* a mismatched remap_ids naming the id of an agent that was added after the
\* last rebuild of the buffer: the agent keeps its id, the buffer stays short
C11_Witness ==
    /\ last.op = "remap_ids"
    /\ Len(last.old_ids) # Len(last.new_ids)
    /\ \E i \in 1..Len(agents) :
          \E k \in 1..Len(last.old_ids) : agents[i].id = last.old_ids[k]
    /\ Len(export_buffer) < 5 * Len(agents)
    /\ tick_count > 0

(***************************************************************************)
(* generate_target as a function of the map and the target                 *)
(***************************************************************************)
\* the map after set_obstacle(x, y, true) for every cell index of walls
RECURSIVE WithObstacles(_, _)
WithObstacles(ff, walls) ==
    IF walls = {} THEN ff
    ELSE LET i == CHOOSE i \in walls : TRUE
         IN  WithObstacles(SetObstacle(ff, i % ff.width, i \div ff.width, TRUE),
                           walls \ {i})

\* the maps generate_target is applied to: every set of at most MaxWalls walls
WallSets == {walls \in SUBSET (0..(GridSize * GridSize - 1)) : Cardinality(walls) <= MaxWalls}

\* the targets it is called with: every cell centre and two points that round
\* to a cell
Targets ==
    {DVec2(x * Scale, y * Scale) : x \in 0..(GridSize - 1), y \in 0..(GridSize - 1)}
    \cup {DVec2(Scale + Scale \div 2, 0), DVec2(0, Scale \div 2 - 1)}

InitGenerate ==
    /\ tick_count = 0
    /\ export_buffer = <<>>
    /\ flow_field \in {WithObstacles(FlowFieldNew(GridSize, GridSize), walls) :
                          walls \in WallSets}
    /\ nav_mesh = <<>>
    /\ agents = <<>>
    /\ snap = <<>>
    /\ snap_state = <<>>
    /\ last = [op |-> "new"]

\* FlowField::generate_target on the simulation's field
CallGenerateTarget(target) ==
    /\ flow_field' = GenerateTarget(flow_field, target.x, target.y)
    /\ last' = [op |-> "generate_target", target_x |-> target.x, target_y |-> target.y]
    /\ UNCHANGED <<tick_count, export_buffer, nav_mesh, agents, snap, snap_state>>

NextGenerate == \E target \in Targets : CallGenerateTarget(target)

SpecGenerate == InitGenerate /\ [][NextGenerate]_vars

\* f64::round of a coordinate: to the nearest integer, halves away from zero
Rounded(v) ==
    IF v >= 0 THEN (2 * v + Scale) \div (2 * Scale)
    ELSE -((Scale - 2 * v) \div (2 * Scale))

\* the rounded point (x, y) names a cell of the grid
RoundedInGrid(ff, x, y) ==
    /\ Rounded(x) >= 0 /\ Rounded(x) < ff.width
    /\ Rounded(y) >= 0 /\ Rounded(y) < ff.height

CellIndices(ff) == 0..(ff.width * ff.height - 1)

\* the cells one 4-connected step away from cell c
Neighbours4(ff, c) ==
    {n \in CellIndices(ff) :
        \/ (n \div ff.width = c \div ff.width /\ (n = c + 1 \/ n = c - 1))
        \/ n = c + ff.width \/ n = c - ff.width}

\* dist with every cell of cells set to k
RECURSIVE Mark(_, _, _)
Mark(dist, cells, k) ==
    IF cells = {} THEN dist
    ELSE LET c == CHOOSE c \in cells : TRUE
         IN  Mark([dist EXCEPT ![c] = k], cells \ {c}, k)

\* number of 4-connected steps from cell t to every cell through non-wall
\* cells, breadth first from the cells k - 1 steps away; F64_MAX where there
\* is no such walk
RECURSIVE StepsFrom(_, _, _)
StepsFrom(ff, dist, k) ==
    LET next == {n \in DOMAIN dist :
                    /\ ff.costs[n] # WALL
                    /\ dist[n] = F64_MAX
                    /\ \E c \in Neighbours4(ff, n) : dist[c] = k - 1}
    IN  IF next = {} THEN dist ELSE StepsFrom(ff, Mark(dist, next, k), k + 1)

Steps(ff, t) ==
    StepsFrom(ff, Mark([c \in CellIndices(ff) |-> F64_MAX], {t}, 0), 1)

\* one relaxation of cell c: the least of its value and, over its finite
\* neighbours n, best[n] plus the cost of entering c
RelaxCell(ff, t, best, c) ==
    IF c = t \/ ff.costs[c] = WALL THEN best[c]
    ELSE LET via == {best[n] + ff.costs[c] :
                        n \in {m \in Neighbours4(ff, c) : best[m] < F64_MAX}}
         IN  IF \E v \in via : v < best[c]
             THEN CHOOSE v \in via : \A u \in via : v <= u
             ELSE best[c]

\* one round: the cells c, c + 1, ... relaxed in turn
RECURSIVE RelaxRound(_, _, _, _)
RelaxRound(ff, t, best, c) ==
    IF c >= ff.width * ff.height THEN best
    ELSE LET v == RelaxCell(ff, t, best, c)
         IN  IF v = best[c] THEN RelaxRound(ff, t, best, c + 1)
             ELSE RelaxRound(ff, t, [best EXCEPT ![c] = v], c + 1)

\* least sum of the costs of the cells entered on a walk from t: rounds of
\* relaxation until a round changes nothing
RECURSIVE RelaxRounds(_, _, _)
RelaxRounds(ff, t, best) ==
    LET round == RelaxRound(ff, t, best, 0)
    IN  IF \A c \in CellIndices(ff) : round[c] = best[c] THEN best
        ELSE RelaxRounds(ff, t, round)

MinCost(ff, t) ==
    RelaxRounds(ff, t, Mark([c \in CellIndices(ff) |-> F64_MAX], {t}, 0))

\* the cell generate_target was last called for, when its rounded target is in
\* the grid
LastTarget == Rounded(last.target_y) * flow_field.width + Rounded(last.target_x)

\* C12: after generate_target with an in-bounds target, on every map, the
\* target has integration 0, every non-wall cell that 4-connected steps
\* through non-wall cells reach from the target has the least accumulated
\* cost (the number of steps, all walkable costs being 1), every other cell
\* has +infinity, and integration[c] <= integration[n] + cost[c] for every
\* finite cell c and 4-neighbour n.
C12_IntegrationIsMinCost ==
    (last.op = "generate_target"
     /\ RoundedInGrid(flow_field, last.target_x, last.target_y)) =>
        LET ff == flow_field
            steps == Steps(ff, LastTarget)
            best == MinCost(ff, LastTarget)
        IN  /\ ff.integration[LastTarget] = 0
            /\ \A c \in CellIndices(ff) :
                  /\ ff.integration[c] = best[c]
                  /\ ff.integration[c] = steps[c]
                  /\ (ff.integration[c] < F64_MAX) <=> (steps[c] < F64_MAX)
            /\ \A c \in CellIndices(ff) : ff.integration[c] < F64_MAX =>
                  \A n \in Neighbours4(ff, c) :
                     \/ ff.integration[n] = F64_MAX
                     \/ ff.integration[c] <= ff.integration[n] + ff.costs[c]

\* a generated field in which walls force a detour (a cell farther from the
\* target than its Manhattan distance) and a wall keeps +infinity
C12_Witness ==
    /\ last.op = "generate_target"
    /\ RoundedInGrid(flow_field, last.target_x, last.target_y)
    /\ \E c \in CellIndices(flow_field) :
          LET w == flow_field.width
              dx == (c % w) - (LastTarget % w)
              dy == (c \div w) - (LastTarget \div w)
          IN  /\ flow_field.integration[c] < F64_MAX
              /\ flow_field.integration[c] >
                    (IF dx < 0 THEN -dx ELSE dx) + (IF dy < 0 THEN -dy ELSE dy)
    /\ \E c \in CellIndices(flow_field) :
          flow_field.costs[c] = WALL /\ flow_field.integration[c] = F64_MAX

\* the scan order of the contract: up, right, down, left
ScanOrder == <<DVec2(0, -1), DVec2(1, 0), DVec2(0, 1), DVec2(-1, 0)>>

\* the cell one step of ScanOrder[k] from cell c, -1 if that leaves the grid
ScanNeighbour(ff, c, k) ==
    LET nx == (c % ff.width) + ScanOrder[k].x
        ny == (c \div ff.width) + ScanOrder[k].y
    IN  IF nx >= 0 /\ nx < ff.width /\ ny >= 0 /\ ny < ff.height
        THEN ny * ff.width + nx ELSE -1

\* the directions of ScanOrder that lead from c to a cell of strictly smaller
\* integration
Downhill(ff, c) ==
    {k \in 1..Len(ScanOrder) :
        /\ ScanNeighbour(ff, c, k) >= 0
        /\ ff.integration[ScanNeighbour(ff, c, k)] < ff.integration[c]}

\* the first direction of ScanOrder among those of Downhill(ff, c) that lead
\* to the smallest integration
Steepest(ff, c) ==
    CHOOSE k \in Downhill(ff, c) : \A j \in Downhill(ff, c) :
        \/ ff.integration[ScanNeighbour(ff, c, k)] < ff.integration[ScanNeighbour(ff, c, j)]
        \/ /\ ff.integration[ScanNeighbour(ff, c, k)] = ff.integration[ScanNeighbour(ff, c, j)]
           /\ k <= j

\* generate_target(5, 5) on an open 10x10 grid
OpenGridExample == GenerateTarget(FlowFieldNew(10, 10), 5 * Scale, 5 * Scale)

\* C13: after generate_target the gradient at every non-wall cell is the unit
\* step toward the in-bounds 4-neighbour of smallest integration strictly
\* below the cell's own, ties broken by the order up, right, down, left, and
\* zero when no neighbour is strictly smaller, as at the target; on an open
\* 10x10 grid with target (5,5) the gradient at (0,0) is (1,0).
C13_GradientIsSteepestDescent ==
    /\ last.op = "generate_target" =>
          /\ \A c \in CellIndices(flow_field) : flow_field.costs[c] # WALL =>
                flow_field.vectors[c] =
                    IF Downhill(flow_field, c) = {} THEN ZERO
                    ELSE DVec2(ScanOrder[Steepest(flow_field, c)].x * Scale,
                               ScanOrder[Steepest(flow_field, c)].y * Scale)
          /\ RoundedInGrid(flow_field, last.target_x, last.target_y) =>
                flow_field.vectors[LastTarget] = ZERO
    /\ OpenGridExample.vectors[0] = DVec2(Scale, 0)

\* a generated field with a cell whose upper and right neighbours are equally
\* low: its gradient points up; the target is not a wall
C13_Witness ==
    /\ last.op = "generate_target"
    /\ flow_field.costs[LastTarget] # WALL
    /\ \E c \in CellIndices(flow_field) :
          /\ flow_field.costs[c] # WALL
          /\ {1, 2} \subseteq Downhill(flow_field, c)
          /\ flow_field.integration[ScanNeighbour(flow_field, c, 1)] =
                flow_field.integration[ScanNeighbour(flow_field, c, 2)]
          /\ flow_field.vectors[c] = DVec2(0, -Scale)

(***************************************************************************)
(* A FlowField under set_obstacle, generate_target and get_direction       *)
(***************************************************************************)
\* set_obstacle is called for the cells of column x = 2 but (2, 2)
ObstacleCalls ==
    {[x |-> 2, y |-> y, is_wall |-> w] :
        y \in (0..(ScenarioSize - 1)) \ {2}, w \in BOOLEAN}

\* generate_target is called for cell (4, 2), for a point left of the grid and
\* for a point right of it
ScenarioTargets ==
    {DVec2(4 * Scale, 2 * Scale), DVec2(-Scale, 2 * Scale),
     DVec2(ScenarioSize * Scale, 2 * Scale)}

\* get_direction is called for cell (0, 2), for a point above the grid and for
\* a point right of it
Queries ==
    {DVec2(0, 2 * Scale), DVec2(Scale, -Scale), DVec2(ScenarioSize * Scale, 0)}

InitFlowField ==
    /\ tick_count = 0
    /\ export_buffer = <<>>
    /\ flow_field = FlowFieldNew(ScenarioSize, ScenarioSize)
    /\ nav_mesh = <<>>
    /\ agents = <<>>
    /\ snap = <<>>
    /\ snap_state = <<>>
    /\ last = [op |-> "new"]

\* FlowField::set_obstacle
CallSetObstacle(x, y, is_wall) ==
    /\ flow_field' = SetObstacle(flow_field, x, y, is_wall)
    /\ last' = [op |-> "set_obstacle"]
    /\ UNCHANGED <<tick_count, export_buffer, nav_mesh, agents, snap, snap_state>>

\* FlowField::get_direction; the vector it returns is kept in last
CallGetDirection(x, y) ==
    /\ last' = [op |-> "get_direction", x |-> x, y |-> y,
                 result |-> GetDirection(flow_field, x, y)]
    /\ UNCHANGED <<tick_count, export_buffer, flow_field, nav_mesh, agents, snap,
                   snap_state>>

NextFlowField ==
    \/ \E c \in ObstacleCalls : CallSetObstacle(c.x, c.y, c.is_wall)
    \/ \E target \in ScenarioTargets : CallGenerateTarget(target)
    \/ \E q \in Queries : CallGetDirection(q.x, q.y)

SpecFlowField == InitFlowField /\ [][NextFlowField]_vars

\* C14: generate_target whose rounded target is outside the grid, negative
\* coordinates included, changes nothing of the field: costs, integration and
\* vectors stay as they were.
C14_OutOfBoundsTargetIsNoOp ==
    [][(last'.op = "generate_target"
        /\ ~RoundedInGrid(flow_field, last'.target_x, last'.target_y)) =>
          /\ flow_field'.costs = flow_field.costs
          /\ flow_field'.integration = flow_field.integration
          /\ flow_field'.vectors = flow_field.vectors]_vars

\* C15: get_direction returns the zero vector when the rounded point is
\* outside the grid, negative coordinates included, and the gradient stored
\* for the rounded cell otherwise.
C15_DirectionOfRoundedCell ==
    last.op = "get_direction" =>
        last.result =
            IF RoundedInGrid(flow_field, last.x, last.y)
            THEN flow_field.vectors[Rounded(last.y) * flow_field.width + Rounded(last.x)]
            ELSE ZERO

\* the walls of the scenario: column x = 2 but cell (2, 2), nothing else
ScenarioWalls(ff) ==
    \A c \in CellIndices(ff) :
        (ff.costs[c] = WALL) <=> (c % ff.width = 2 /\ c \div ff.width # 2)

\* generate_target(4, 2) has just run on the scenario's map
ScenarioGenerated ==
    /\ last.op = "generate_target"
    /\ last.target_x = 4 * Scale /\ last.target_y = 2 * Scale
    /\ ScenarioWalls(flow_field)

\* C16 as stated: in the scenario the integration of cell (0, 2) is 6.
C16_IntegrationIsSix ==
    ScenarioGenerated => flow_field.integration[2 * flow_field.width + 0] = 6

\* C16: on the 5x5 field whose column x = 2 is walls but for (2, 2), after
\* generate_target(4, 2) the integration of cell (0, 2) is 4, the number of
\* steps of (0,2) -> (1,2) -> (2,2) -> (3,2) -> (4,2).
C16_IntegrationIsFour ==
    ScenarioGenerated => flow_field.integration[2 * flow_field.width + 0] = 4

\* the scenario generated: the gap (2, 2) is 2 steps from the target and the
\* only way through, (0, 0) is 6 steps away and (0, 2) points right
C16_Witness ==
    /\ ScenarioGenerated
    /\ flow_field.integration[2 * flow_field.width + 2] = 2
    /\ flow_field.integration[0] = 6
    /\ flow_field.vectors[2 * flow_field.width + 0] = DVec2(Scale, 0)

(***************************************************************************)
(* pathfinding/astar.rs: the generic a_star                                *)
(***************************************************************************)
\* The graphs a_star is run on: nodes s (the start), a, b, g and any subset
\* of the edges of EdgePool, each edge with a cost of EdgeCosts.
Nodes == {"s", "a", "b", "g"}

EdgePool ==
    <<<<"s", "a">>, <<"s", "b">>, <<"b", "a">>, <<"a", "b">>, <<"a", "g">>, <<"b", "g">>>>

EdgeCosts == {0, 1, MaxCost}

\* the heuristics: 0 at s and g, any cost at a and at b
Heuristics ==
    {[n \in Nodes |-> IF n = "a" THEN ha ELSE IF n = "b" THEN hb ELSE 0] :
        ha \in EdgeCosts, hb \in EdgeCosts}

\* the goal predicates, as the set of nodes they hold of
GoalSets == {{"g"}, {"a", "g"}, {"s", "g"}}

\* a graph is the cost of each edge it has, by the edge's index in EdgePool
Graphs ==
    UNION {[present -> EdgeCosts] : present \in SUBSET (1..Len(EdgePool))}

\* the (neighbor, edge_cost) pairs of the edges of graph leaving node, from
\* edge i of the pool on
RECURSIVE NeighborsFrom(_, _, _)
NeighborsFrom(graph, node, i) ==
    IF i > Len(EdgePool) THEN <<>>
    ELSE IF i \in DOMAIN graph /\ EdgePool[i][1] = node
         THEN <<<<EdgePool[i][2], graph[i]>>>> \o NeighborsFrom(graph, node, i + 1)
         ELSE NeighborsFrom(graph, node, i + 1)

\* the closure get_neighbors of a graph, as a function of the node
GetNeighbors(graph) == [node \in Nodes |-> NeighborsFrom(graph, node, 1)]

\* faulty variant of the queue order: any entry may be popped
AnyEntries(open_set) == open_set

\* the entries BinaryHeap::pop may return under the reversed Ord of State:
\* those of least cost (f score); which of them it is, is the heap's business
MinEntries(open_set) ==
    {e \in open_set : \A o \in open_set : e.cost <= o.cost}

\* the `for (neighbor, edge_cost) in get_neighbors(current)` loop over
\* neighbors from neighbour k on; st = [open_set, came_from, g_score, goal]
RECURSIVE RelaxNeighbors(_, _, _, _, _, _)
RelaxNeighbors(neighbors, get_heuristic, st, current, current_g, k) ==
    IF k > Len(neighbors) THEN st
    ELSE LET neighbor == neighbors[k][1]
             tentative_g == current_g + neighbors[k][2]
             better == \/ neighbor \notin DOMAIN st.g_score
                       \/ tentative_g < st.g_score[neighbor]
             next ==
                 IF better
                 THEN [st EXCEPT
                          !.open_set = st.open_set \cup
                              {[node |-> neighbor,
                                cost |-> tentative_g + get_heuristic[neighbor]]},
                          !.came_from = (neighbor :> current) @@ st.came_from,
                          !.g_score = (neighbor :> tentative_g) @@ st.g_score]
                 ELSE st
         IN  RelaxNeighbors(neighbors, get_heuristic, next, current,
                            current_g, k + 1)

\* the text reversed (the halves are reversed one after the other)
RECURSIVE Reverse(_)
Reverse(path) ==
    IF Len(path) <= 1 THEN path
    ELSE Reverse(SubSeq(path, Len(path) \div 2 + 1, Len(path)))
         \o Reverse(SubSeq(path, 1, Len(path) \div 2))

\* up to n rounds of the `while let Some(&prev) = came_from.get(&curr)` loop
\* (the halves are run one after the other); walk = [path, curr]
RECURSIVE WalkBack(_, _, _)
WalkBack(came_from, walk, n) ==
    IF walk.curr \notin DOMAIN came_from \/ n = 0 THEN walk
    ELSE IF n = 1
    THEN [path |-> Append(walk.path, came_from[walk.curr]),
          curr |-> came_from[walk.curr]]
    ELSE WalkBack(came_from, WalkBack(came_from, walk, n \div 2), n - n \div 2)

\* the loop run so until curr has no predecessor, n rounds first and twice as
\* many each time after
RECURSIVE WalkBackLoop(_, _, _)
WalkBackLoop(came_from, walk, n) ==
    LET walked == WalkBack(came_from, walk, n)
    IN  IF walked.curr \notin DOMAIN came_from THEN walked
        ELSE WalkBackLoop(came_from, walked, 2 * n)

\* the path reconstruction: follow came_from back from curr, then reverse
ReconstructPath(came_from, curr) ==
    Reverse(WalkBackLoop(came_from, [path |-> <<curr>>, curr |-> curr], 8).path)

\* Option<(C, Vec<N>)>
None == [found |-> FALSE, cost |-> 0, path |-> <<>>]

Some(cost, path) == [found |-> TRUE, cost |-> cost, path |-> path]

\* the body of the `while let Some(..) = open_set.pop()` loop for the popped
\* entry e, taken out of the queue already; st.goal is <<>> until a goal is
\* popped
AStarStep(get_neighbors, get_heuristic, is_goal, st, e) ==
    IF e.node \in is_goal THEN [st EXCEPT !.goal = <<e.node>>]
    ELSE RelaxNeighbors(get_neighbors[e.node], get_heuristic, st, e.node,
                        st.g_score[e.node], 1)

\* what the function returns once the loop is left: the cost and the
\* reconstructed path of the goal popped, or nothing
Returned(st) ==
    IF st.goal # <<>>
    THEN Some(st.g_score[st.goal[1]], ReconstructPath(st.came_from, st.goal[1]))
    ELSE None

\* the loop, whichever of the equal entries the heap returns: the results
\* the function can return
RECURSIVE AStarAny(_, _, _, _)
AStarAny(get_neighbors, get_heuristic, is_goal, st) ==
    IF st.goal # <<>> \/ st.open_set = {} THEN {Returned(st)}
    ELSE UNION {AStarAny(get_neighbors, get_heuristic, is_goal,
                    AStarStep(get_neighbors, get_heuristic, is_goal,
                              [st EXCEPT !.open_set = st.open_set \ {e}], e)) :
                   e \in MinEntries(st.open_set)}

\* up to n iterations of the loop with one of the equal entries popped (the
\* halves are run one after the other)
RECURSIVE AStarSteps(_, _, _, _, _)
AStarSteps(get_neighbors, get_heuristic, is_goal, st, n) ==
    IF st.goal # <<>> \/ st.open_set = {} \/ n = 0 THEN st
    ELSE IF n = 1
    THEN LET e == CHOOSE m \in MinEntries(st.open_set) : TRUE
         IN  AStarStep(get_neighbors, get_heuristic, is_goal,
                       [st EXCEPT !.open_set = st.open_set \ {e}], e)
    ELSE AStarSteps(get_neighbors, get_heuristic, is_goal,
             AStarSteps(get_neighbors, get_heuristic, is_goal, st, n \div 2),
             n - n \div 2)

\* the loop run so until it is left, n iterations at a time
RECURSIVE AStarLoop(_, _, _, _, _)
AStarLoop(get_neighbors, get_heuristic, is_goal, st, n) ==
    LET ran == AStarSteps(get_neighbors, get_heuristic, is_goal, st, n)
    IN  IF ran.goal # <<>> \/ ran.open_set = {} THEN ran
        ELSE AStarLoop(get_neighbors, get_heuristic, is_goal, ran, n)

\* a_star(start, get_neighbors, get_heuristic, is_goal): the results it can
\* return (pops = "any"), or the result for one order of the equal entries;
\* the closures are functions of the node, is_goal the set of nodes it holds
\* of
AStar(start, get_neighbors, get_heuristic, is_goal, pops) ==
    LET st == [open_set |-> {[node |-> start, cost |-> get_heuristic[start]]},
               came_from |-> <<>>,
               g_score |-> (start :> 0),
               goal |-> <<>>]
    IN  IF pops = "any" THEN AStarAny(get_neighbors, get_heuristic, is_goal, st)
        ELSE {Returned(AStarLoop(get_neighbors, get_heuristic, is_goal, st,
                                 Cardinality(DOMAIN get_heuristic)))}

\* graph has the edge u -> v
HasEdge(graph, u, v) == \E i \in DOMAIN graph : EdgePool[i] = <<u, v>>

EdgeCost(graph, u, v) == graph[CHOOSE i \in DOMAIN graph : EdgePool[i] = <<u, v>>]

\* the paths of graph that start with the node sequence p and repeat no node
RECURSIVE PathsFrom(_, _)
PathsFrom(graph, p) ==
    {p} \cup UNION {PathsFrom(graph, Append(p, n)) :
                       n \in {m \in Nodes : /\ HasEdge(graph, p[Len(p)], m)
                                            /\ \A i \in 1..Len(p) : p[i] # m}}

\* the sum of the edge costs along p
RECURSIVE PathCost(_, _)
PathCost(graph, p) ==
    IF Len(p) < 2 THEN 0
    ELSE EdgeCost(graph, p[1], p[2]) + PathCost(graph, Tail(p))

\* the paths from node n to a goal
GoalPaths(graph, goals, n) ==
    {p \in PathsFrom(graph, <<n>>) : p[Len(p)] \in goals}

\* h never exceeds the cost of reaching a goal
Admissible(graph, h, goals) ==
    \A n \in Nodes : \A p \in GoalPaths(graph, goals, n) : h[n] <= PathCost(graph, p)

\* what a_star is called with: every graph, goal predicate and admissible
\* heuristic
AStarCalls ==
    {c \in [graph : Graphs, h : Heuristics, goals : GoalSets] :
        Admissible(c.graph, c.h, c.goals)}

\* a_star from s
CallAStar(graph, h, goals) ==
    /\ \E result \in AStar("s", GetNeighbors(graph), h, goals, "any") :
          last' = [op |-> "a_star", graph |-> graph, h |-> h, goals |-> goals,
                   result |-> result]
    /\ UNCHANGED <<tick_count, export_buffer, flow_field, nav_mesh, agents, snap,
                   snap_state>>

\* a_star keeps nothing between calls: a behaviour holds one call
NextAStar ==
    /\ last.op = "new"
    /\ \E c \in AStarCalls : CallAStar(c.graph, c.h, c.goals)

SpecAStar == Init /\ [][NextAStar]_vars

\* C17: on a finite graph with non-negative edge costs and an admissible
\* heuristic a_star returns nothing exactly when no goal is reachable from
\* the start; otherwise the path starts at the start, ends at a goal, each
\* consecutive pair is an edge of the neighbour function, the cost is the sum
\* of those edge costs, and no path from the start to a goal costs less.
C17_AStarOptimal ==
    last.op = "a_star" =>
        LET r == last.result
            paths == GoalPaths(last.graph, last.goals, "s")
        IN  /\ r.found <=> paths # {}
            /\ r.found =>
                  /\ r.path[1] = "s"
                  /\ r.path[Len(r.path)] \in last.goals
                  /\ \A i \in 1..(Len(r.path) - 1) :
                        HasEdge(last.graph, r.path[i], r.path[i + 1])
                  /\ r.cost = PathCost(last.graph, r.path)
                  /\ \A p \in paths : r.cost <= PathCost(last.graph, p)

\* the path s, b, a, g found although a was first reached by the costlier
\* edge s -> a and the heuristic is not consistent along b -> a
C17_Witness ==
    /\ last.op = "a_star"
    /\ last.result.found
    /\ last.result.path = <<"s", "b", "a", "g">>
    /\ {1, 2, 3, 5} \subseteq DOMAIN last.graph
    /\ last.graph[1] > last.graph[2] + last.graph[3]
    /\ last.h["b"] > last.graph[3] + last.h["a"]

(***************************************************************************)
(* pathfinding/hpa.rs: GridMap and HPAGrid::build                          *)
(***************************************************************************)
\* glam's IVec2
IVec2(x, y) == [x |-> x, y |-> y]

IAdd(a, b) == IVec2(a.x + b.x, a.y + b.y)

IScale(v, s) == IVec2(v.x * s, v.y * s)

Min(a, b) == IF a < b THEN a ELSE b

Abs(a) == IF a < 0 THEN -a ELSE a

\* GridMap::new: walls is row-major, TRUE is a wall
GridMapNew(width, height) ==
    [width |-> width, height |-> height,
     walls |-> [i \in 0..(width * height - 1) |-> FALSE]]

\* GridMap::is_walkable
IsWalkable(grid, pos) ==
    IF pos.x < 0 \/ pos.x >= grid.width \/ pos.y < 0 \/ pos.y >= grid.height
    THEN FALSE
    ELSE ~grid.walls[pos.y * grid.width + pos.x]

\* GridMap::set_obstacle
GridSetObstacle(grid, pos, is_wall) ==
    IF pos.x >= 0 /\ pos.x < grid.width /\ pos.y >= 0 /\ pos.y < grid.height
    THEN [grid EXCEPT !.walls[pos.y * grid.width + pos.x] = is_wall]
    ELSE grid

\* fn heuristic: the Manhattan distance
Heuristic(a, b) == Abs(a.x - b.x) + Abs(a.y - b.y)

\* the directions get_neighbors of a_star_local tries: up, down, right, left
LocalDirs == <<IVec2(0, 1), IVec2(0, -1), IVec2(1, 0), IVec2(-1, 0)>>

\* the get_neighbors closure of a_star_local at pos: the steps that stay in
\* the box [min, max) and on walkable cells, each of cost 1
LocalNeighbors(grid, pos, min, max) ==
    SelectSeq(<<<<IAdd(pos, LocalDirs[1]), 1>>, <<IAdd(pos, LocalDirs[2]), 1>>,
                <<IAdd(pos, LocalDirs[3]), 1>>, <<IAdd(pos, LocalDirs[4]), 1>>>>,
              LAMBDA n : /\ n[1].x >= min.x /\ n[1].x < max.x
                         /\ n[1].y >= min.y /\ n[1].y < max.y
                         /\ IsWalkable(grid, n[1]))

\* the positions a search inside the box [min, max) from start can stand on
LocalNodes(start, min, max) ==
    [x : min.x..(max.x - 1), y : min.y..(max.y - 1)] \cup {start}

\* a_star_local: a_star inside the box [min, max); of the equal entries of the
\* queue one is followed
AStarLocal(grid, start, end, min, max) ==
    LET nodes == LocalNodes(start, min, max)
        get_neighbors == [pos \in nodes |-> LocalNeighbors(grid, pos, min, max)]
        get_heuristic == [pos \in nodes |-> Heuristic(pos, end)]
    IN  CHOOSE r \in AStar(start, get_neighbors, get_heuristic, {end}, "one") : TRUE

\* HPAGrid::new
HPAGridNew(grid, cluster_size) ==
    [grid |-> grid, cluster_size |-> cluster_size, portals |-> <<>>,
     graph |-> <<>>, cluster_lookup |-> <<>>]

\* faulty variant of place_portals_in_segment: one portal pair, at the first
\* cell of the segment
PlacePortalsAtStart(start, len, step, neighbor_dir, c1, c2) ==
    <<[pos |-> start, cluster_xy |-> c1],
      [pos |-> IAdd(start, neighbor_dir), cluster_xy |-> c2]>>

\* the add_portal calls of place_portals_in_segment for targets from k on
RECURSIVE PortalPairsFrom(_, _, _, _, _)
PortalPairsFrom(targets, neighbor_dir, c1, c2, k) ==
    IF k > Len(targets) THEN <<>>
    ELSE <<[pos |-> targets[k], cluster_xy |-> c1],
           [pos |-> IAdd(targets[k], neighbor_dir), cluster_xy |-> c2]>>
         \o PortalPairsFrom(targets, neighbor_dir, c1, c2, k + 1)

\* place_portals_in_segment: the (pos, cluster) pairs handed to add_portal
PlacePortalsInSegment(start, len, step, neighbor_dir, c1, c2) ==
    LET targets == IF len > 5
                   THEN <<start, IAdd(start, IScale(step, len - 1))>>
                   ELSE <<IAdd(start, IScale(step, len \div 2))>>
    IN  PortalPairsFrom(targets, neighbor_dir, c1, c2, 1)

\* the loop of scan_boundary with `left` cells to go; segment_start is <<>>
\* for None
RECURSIVE ScanFrom(_, _, _, _, _, _, _, _, _)
ScanFrom(grid, current, step, left, neighbor_dir, c1, c2, segment_start, segment_len) ==
    IF left = 0
    THEN IF segment_start # <<>>
         THEN PlacePortalsInSegment(segment_start[1], segment_len, step,
                                    neighbor_dir, c1, c2)
         ELSE <<>>
    ELSE LET walkable == /\ IsWalkable(grid, current)
                         /\ IsWalkable(grid, IAdd(current, neighbor_dir))
             next == IAdd(current, step)
         IN  IF walkable
             THEN ScanFrom(grid, next, step, left - 1, neighbor_dir, c1, c2,
                           IF segment_start = <<>> THEN <<current>> ELSE segment_start,
                           segment_len + 1)
             ELSE IF segment_start # <<>>
             THEN PlacePortalsInSegment(segment_start[1], segment_len, step,
                                        neighbor_dir, c1, c2)
                  \o ScanFrom(grid, next, step, left - 1, neighbor_dir, c1, c2, <<>>, 0)
             ELSE ScanFrom(grid, next, step, left - 1, neighbor_dir, c1, c2, <<>>, 0)

\* scan_boundary
ScanBoundary(grid, start_pos, step, length, neighbor_dir, c1, c2) ==
    ScanFrom(grid, start_pos, step, length, neighbor_dir, c1, c2, <<>>, 0)

ClustersW(grid, cluster_size) == (grid.width + cluster_size - 1) \div cluster_size

ClustersH(grid, cluster_size) == (grid.height + cluster_size - 1) \div cluster_size

\* the "Vertical Edges" loops of create_portals from the k-th (cx, cy) on
RECURSIVE VerticalEdges(_, _, _)
VerticalEdges(grid, cluster_size, k) ==
    LET clusters_h == ClustersH(grid, cluster_size)
        cx == k \div clusters_h
        cy == k % clusters_h
        border_x == (cx + 1) * cluster_size - 1
        y_start == cy * cluster_size
        y_end == Min(y_start + cluster_size, grid.height)
    IN  IF k >= (ClustersW(grid, cluster_size) - 1) * clusters_h THEN <<>>
        ELSE ScanBoundary(grid, IVec2(border_x, y_start), IVec2(0, 1),
                          y_end - y_start, IVec2(1, 0),
                          IVec2(cx, cy), IVec2(cx + 1, cy))
             \o VerticalEdges(grid, cluster_size, k + 1)

\* the "Horizontal Edges" loops of create_portals from the k-th (cx, cy) on
RECURSIVE HorizontalEdges(_, _, _)
HorizontalEdges(grid, cluster_size, k) ==
    LET rows == ClustersH(grid, cluster_size) - 1
    IN  IF rows <= 0 \/ k >= ClustersW(grid, cluster_size) * rows THEN <<>>
        ELSE LET cx == k \div rows
                 cy == k % rows
                 border_y == (cy + 1) * cluster_size - 1
                 x_start == cx * cluster_size
                 x_end == Min(x_start + cluster_size, grid.width)
             IN  ScanBoundary(grid, IVec2(x_start, border_y), IVec2(1, 0),
                              x_end - x_start, IVec2(0, 1),
                              IVec2(cx, cy), IVec2(cx, cy + 1))
                 \o HorizontalEdges(grid, cluster_size, k + 1)

\* add_portal for the k-th call on: the portals are numbered from 0 in the
\* order of the calls
RECURSIVE AddPortals(_, _)
AddPortals(added, k) ==
    IF k > Len(added) THEN <<>>
    ELSE <<[id |-> k - 1, pos |-> added[k].pos, cluster_xy |-> added[k].cluster_xy]>>
         \o AddPortals(added, k + 1)

\* create_portals: the portals vector
CreatePortals(grid, cluster_size) ==
    AddPortals(VerticalEdges(grid, cluster_size, 0)
               \o HorizontalEdges(grid, cluster_size, 0), 1)

\* the ids add_portal pushed under the key of cluster `key`, from portal k on
RECURSIVE PortalIdsOf(_, _, _)
PortalIdsOf(portals, key, k) ==
    IF k > Len(portals) THEN <<>>
    ELSE IF portals[k].cluster_xy = key
    THEN <<portals[k].id>> \o PortalIdsOf(portals, key, k + 1)
    ELSE PortalIdsOf(portals, key, k + 1)

\* cluster_lookup after create_portals; its key "x,y" is kept as the cluster
\* coordinate the text is formatted from and parsed back to
ClusterLookup(portals) ==
    [key \in {portals[k].cluster_xy : k \in 1..Len(portals)} |->
        PortalIdsOf(portals, key, 1)]

\* pos_map of build_inter_cluster_edges: of the portals at one position the
\* one inserted last stays
PosMap(portals) ==
    [pos \in {portals[k].pos : k \in 1..Len(portals)} |->
        CHOOSE id \in {portals[k].id : k \in {j \in 1..Len(portals) : portals[j].pos = pos}} :
            \A k \in 1..Len(portals) : portals[k].pos = pos => portals[k].id <= id]

\* the directions build_inter_cluster_edges looks in
InterDirs == <<IVec2(1, 0), IVec2(-1, 0), IVec2(0, 1), IVec2(0, -1)>>

\* the edges build_inter_cluster_edges pushes for portal p, from direction k on
RECURSIVE InterEdgesFrom(_, _, _, _)
InterEdgesFrom(portals, pos_map, p, k) ==
    IF k > Len(InterDirs) THEN <<>>
    ELSE LET target_pos == IAdd(p.pos, InterDirs[k])
             rest == InterEdgesFrom(portals, pos_map, p, k + 1)
         IN  IF /\ target_pos \in DOMAIN pos_map
                /\ portals[pos_map[target_pos] + 1].cluster_xy # p.cluster_xy
             THEN <<[to |-> pos_map[target_pos], cost |-> 1,
                     is_inter_cluster |-> TRUE, cached_path |-> <<>>]>> \o rest
             ELSE rest

\* build_inter_cluster_edges on the empty adjacency lists, from portal k on
RECURSIVE BuildInterClusterEdges(_, _, _)
BuildInterClusterEdges(portals, pos_map, k) ==
    IF k > Len(portals) THEN <<>>
    ELSE <<InterEdgesFrom(portals, pos_map, portals[k], 1)>>
         \o BuildInterClusterEdges(portals, pos_map, k + 1)

\* the pairs (i, j), i < j, of the n portals of cluster key in the order of
\* the `for i .. for j in (i+1)..` loops (indices from 1)
PairsOf(key, n) ==
    LET Pair(k) == [key |-> key, i |-> ((k - 1) \div n) + 1, j |-> ((k - 1) % n) + 1]
    IN  SelectSeq([k \in 1..(n * n) |-> Pair(k)], LAMBDA p : p.i < p.j)

\* the orders a map with the keys `keys` can be walked in
RECURSIVE ClusterOrders(_)
ClusterOrders(keys) ==
    IF keys = {} THEN {<<>>}
    ELSE UNION {{<<key>> \o order : order \in ClusterOrders(keys \ {key})} :
                   key \in keys}

\* faulty variant of the pair's body: the edge back carries the path of the
\* edge forth, not its reverse
IntraEdgeUnreversed(hpa, pair) ==
    LET key == pair.key
        min_bound == IVec2(key.x * hpa.cluster_size, key.y * hpa.cluster_size)
        max_bound == IVec2(Min((key.x + 1) * hpa.cluster_size, hpa.grid.width),
                           Min((key.y + 1) * hpa.cluster_size, hpa.grid.height))
        id_a == hpa.cluster_lookup[key][pair.i]
        id_b == hpa.cluster_lookup[key][pair.j]
        found == AStarLocal(hpa.grid, hpa.portals[id_a + 1].pos,
                            hpa.portals[id_b + 1].pos, min_bound, max_bound)
    IN  IF found.found
        THEN <<[at |-> id_a,
                edge |-> [to |-> id_b, cost |-> found.cost,
                          is_inter_cluster |-> FALSE, cached_path |-> found.path]],
               [at |-> id_b,
                edge |-> [to |-> id_a, cost |-> found.cost,
                          is_inter_cluster |-> FALSE, cached_path |-> found.path]]>>
        ELSE <<>>

\* the body of the loops of build_intra_cluster_edges for one pair: the two
\* pushes made if the local search finds a path, each the index of the
\* adjacency list pushed to and the edge
IntraEdge(hpa, pair) ==
    LET key == pair.key
        min_bound == IVec2(key.x * hpa.cluster_size, key.y * hpa.cluster_size)
        max_bound == IVec2(Min((key.x + 1) * hpa.cluster_size, hpa.grid.width),
                           Min((key.y + 1) * hpa.cluster_size, hpa.grid.height))
        id_a == hpa.cluster_lookup[key][pair.i]
        id_b == hpa.cluster_lookup[key][pair.j]
        found == AStarLocal(hpa.grid, hpa.portals[id_a + 1].pos,
                            hpa.portals[id_b + 1].pos, min_bound, max_bound)
    IN  IF found.found
        THEN <<[at |-> id_a,
                edge |-> [to |-> id_b, cost |-> found.cost,
                          is_inter_cluster |-> FALSE, cached_path |-> found.path]],
               [at |-> id_b,
                edge |-> [to |-> id_a, cost |-> found.cost,
                          is_inter_cluster |-> FALSE,
                          cached_path |-> Reverse(found.path)]]>>
        ELSE <<>>

\* the pushes of the pairs from the k-th on, one after the other
RECURSIVE IntraEdgesFrom(_, _, _)
IntraEdgesFrom(hpa, pairs, k) ==
    IF k > Len(pairs) THEN <<>>
    ELSE IntraEdge(hpa, pairs[k]) \o IntraEdgesFrom(hpa, pairs, k + 1)

\* the pushes build_intra_cluster_edges makes while it visits cluster key
ClusterEdges(hpa, key) ==
    IntraEdgesFrom(hpa, PairsOf(key, Len(hpa.cluster_lookup[key])), 1)

\* faulty variant of the walk over cluster_lookup: the loop is left after
\* the first cluster visited
FirstClusterOnly(cluster_edges, order) ==
    IF order = <<>> THEN <<>> ELSE cluster_edges[order[1]]

\* the pushes of build_intra_cluster_edges when `for (key, portal_ids) in
\* &self.cluster_lookup` walks the map in the order `order`
RECURSIVE IntraClusterEdges(_, _)
IntraClusterEdges(cluster_edges, order) ==
    IF order = <<>> THEN <<>>
    ELSE cluster_edges[order[1]] \o IntraClusterEdges(cluster_edges, Tail(order))

\* the adjacency lists after the pushes lo..hi (the halves are run one
\* after the other)
RECURSIVE BuildIntraClusterEdges(_, _, _, _)
BuildIntraClusterEdges(graph, pushes, lo, hi) ==
    IF graph = <<>> \/ lo > hi THEN graph
    ELSE IF lo = hi
    THEN [graph EXCEPT ![pushes[lo].at + 1] = Append(@, pushes[lo].edge)]
    ELSE BuildIntraClusterEdges(
             BuildIntraClusterEdges(graph, pushes, lo, (lo + hi) \div 2),
             pushes, (lo + hi) \div 2 + 1, hi)

\* HPAGrid::build: the grids it can leave, one for every order the unordered
\* cluster_lookup can be walked in
Build(hpa) ==
    LET portals == CreatePortals(hpa.grid, hpa.cluster_size)
        with_portals == [hpa EXCEPT !.portals = portals,
                                    !.cluster_lookup = ClusterLookup(portals)]
        inter == BuildInterClusterEdges(portals, PosMap(portals), 1)
        keys == DOMAIN with_portals.cluster_lookup
        cluster_edges == [key \in keys |-> ClusterEdges(with_portals, key)]
    IN  {LET pushes == IntraClusterEdges(cluster_edges, order)
         IN  [with_portals EXCEPT !.graph =
                 BuildIntraClusterEdges(inter, pushes, 1, Len(pushes))] :
            order \in ClusterOrders(keys)}

(***************************************************************************)
(* pathfinding/hpa.rs: HPAGrid::find_path                                  *)
(***************************************************************************)
\* Option<Vec<IVec2>>
NoPath == [found |-> FALSE, path |-> <<>>]

SomePath(path) == [found |-> TRUE, path |-> path]

\* the portals of cluster c: cluster_lookup.get(key).unwrap_or(empty)
PortalsOfCluster(hpa, c) ==
    IF c \in DOMAIN hpa.cluster_lookup THEN hpa.cluster_lookup[c] ELSE <<>>

\* start_edges: the portals of the start cluster a local search reaches from
\* start, from the k-th portal on
RECURSIVE StartEdges(_, _, _, _, _, _)
StartEdges(hpa, start, start_portals, b_min, b_max, k) ==
    IF k > Len(start_portals) THEN <<>>
    ELSE LET p_id == start_portals[k]
             found == AStarLocal(hpa.grid, start, hpa.portals[p_id + 1].pos,
                                 b_min, b_max)
             rest == StartEdges(hpa, start, start_portals, b_min, b_max, k + 1)
         IN  IF found.found
             THEN <<[p_id |-> p_id, cost |-> found.cost, path |-> found.path]>> \o rest
             ELSE rest

\* end_costs: the portals of the end cluster a local search reaches end from,
\* from the k-th portal on, added to the map
RECURSIVE EndCosts(_, _, _, _, _, _, _)
EndCosts(hpa, end, end_portals, b_min, b_max, k, end_costs) ==
    IF k > Len(end_portals) THEN end_costs
    ELSE LET p_id == end_portals[k]
             found == AStarLocal(hpa.grid, hpa.portals[p_id + 1].pos, end,
                                 b_min, b_max)
         IN  EndCosts(hpa, end, end_portals, b_min, b_max, k + 1,
                      IF found.found
                      THEN (p_id :> [cost |-> found.cost, path |-> found.path])
                           @@ end_costs
                      ELSE end_costs)

\* BinaryHeap::pop under the Ord of State: least heuristic_cost, of those the
\* greatest cost; which of the entries equal in both comes first is the
\* heap's business
AbstractPop(pq) ==
    CHOOSE s \in pq :
        \A o \in pq : \/ s.heuristic_cost < o.heuristic_cost
                      \/ /\ s.heuristic_cost = o.heuristic_cost
                         /\ s.cost >= o.cost

\* the queue and maps after the `for (p_id, cost, _path) in &start_edges`
\* loops, from edge k on
RECURSIVE SeedQueue(_, _, _, _, _)
SeedQueue(hpa, end, start_edges, st, k) ==
    IF k > Len(start_edges) THEN st
    ELSE LET e == start_edges[k]
         IN  SeedQueue(hpa, end, start_edges,
                 [st EXCEPT
                     !.dists = (e.p_id :> e.cost) @@ st.dists,
                     !.pq = st.pq \cup
                         {[cost |-> e.cost, position |-> e.p_id,
                           heuristic_cost |->
                               e.cost + Heuristic(hpa.portals[e.p_id + 1].pos, end)]},
                     !.start_connections = (e.p_id :> e.path) @@ st.start_connections],
                 k + 1)

\* the `for edge in edges` loop for the popped (cost, position), from edge k on
RECURSIVE ExpandEdges(_, _, _, _, _, _)
ExpandEdges(hpa, end, st, cost, position, k) ==
    LET edges == hpa.graph[position + 1]
    IN  IF k > Len(edges) THEN st
        ELSE LET edge == edges[k]
                 new_cost == cost + edge.cost
                 better == \/ edge.to \notin DOMAIN st.dists
                           \/ new_cost < st.dists[edge.to]
                 segment == IF edge.is_inter_cluster
                            THEN <<hpa.portals[position + 1].pos,
                                   hpa.portals[edge.to + 1].pos>>
                            ELSE edge.cached_path
                 next ==
                     IF better
                     THEN [st EXCEPT
                              !.dists = (edge.to :> new_cost) @@ st.dists,
                              !.pq = st.pq \cup
                                  {[cost |-> new_cost, position |-> edge.to,
                                    heuristic_cost |-> new_cost +
                                        Heuristic(hpa.portals[edge.to + 1].pos, end)]},
                              !.came_from =
                                  (edge.to :> [parent |-> position, segment |-> segment])
                                  @@ st.came_from]
                     ELSE st
             IN  ExpandEdges(hpa, end, next, cost, position, k + 1)

\* the `while let Some(State { .. }) = pq.pop()` loop; final_portal is <<>>
\* for None
RECURSIVE AbstractSearch(_, _, _, _)
AbstractSearch(hpa, end, end_costs, st) ==
    IF st.pq = {} THEN st
    ELSE LET s == AbstractPop(st.pq)
             rest == [st EXCEPT !.pq = st.pq \ {s}]
         IN  IF s.position \in DOMAIN end_costs
             THEN [rest EXCEPT !.final_portal = <<s.position>>]
             ELSE IF s.position \in DOMAIN st.dists /\ s.cost > st.dists[s.position]
             THEN AbstractSearch(hpa, end, end_costs, rest)
             ELSE AbstractSearch(hpa, end, end_costs,
                      ExpandEdges(hpa, end, rest, s.cost, s.position, 1))

\* the `while let Some((parent, segment)) = came_from.get(&curr)` loop: the
\* segments pushed, and the portal the chain stops at
RECURSIVE ChainBack(_, _)
ChainBack(came_from, curr) ==
    IF curr \in DOMAIN came_from
    THEN LET up == ChainBack(came_from, came_from[curr].parent)
         IN  [segments |-> <<came_from[curr].segment>> \o up.segments,
              first |-> up.first]
    ELSE [segments |-> <<>>, first |-> curr]

\* faulty variant of the concatenation: the join point is not collapsed
JoinSegmentWhole(full_path, segment) == full_path \o segment

\* one round of the `for segment in backward_segments.iter().rev()` loop:
\* a first point equal to the last point of full_path is left out
JoinSegment(full_path, segment) ==
    IF full_path # <<>> /\ segment # <<>>
    THEN IF full_path[Len(full_path)] = segment[1]
         THEN full_path \o Tail(segment)
         ELSE full_path \o segment
    ELSE full_path \o segment

\* full_path after the segments Len(backward_segments) down to k
RECURSIVE JoinSegments(_, _)
JoinSegments(backward_segments, k) ==
    IF k > Len(backward_segments) THEN <<>>
    ELSE JoinSegment(JoinSegments(backward_segments, k + 1), backward_segments[k])

\* HPAGrid::find_path
FindPath(hpa, start, end) ==
    IF ~IsWalkable(hpa.grid, start) \/ ~IsWalkable(hpa.grid, end) THEN NoPath
    ELSE
    LET start_c == IVec2(start.x \div hpa.cluster_size, start.y \div hpa.cluster_size)
        end_c == IVec2(end.x \div hpa.cluster_size, end.y \div hpa.cluster_size)
        cs == IVec2(hpa.cluster_size, hpa.cluster_size)
    IN  IF start_c = end_c
        THEN LET bounds_min == IScale(start_c, hpa.cluster_size)
                 found == AStarLocal(hpa.grid, start, end, bounds_min,
                                     IAdd(bounds_min, cs))
             IN  IF found.found THEN SomePath(found.path) ELSE NoPath
        ELSE
        LET s_min == IScale(start_c, hpa.cluster_size)
            start_edges == StartEdges(hpa, start, PortalsOfCluster(hpa, start_c),
                                      s_min, IAdd(s_min, cs), 1)
            e_min == IScale(end_c, hpa.cluster_size)
            end_costs == EndCosts(hpa, end, PortalsOfCluster(hpa, end_c),
                                  e_min, IAdd(e_min, cs), 1, <<>>)
        IN  IF start_edges = <<>> THEN NoPath
            ELSE IF DOMAIN end_costs = {} THEN NoPath
            ELSE
            LET seeded == SeedQueue(hpa, end, start_edges,
                              [dists |-> <<>>, came_from |-> <<>>, pq |-> {},
                               start_connections |-> <<>>, final_portal |-> <<>>], 1)
                searched == AbstractSearch(hpa, end, end_costs, seeded)
            IN  IF searched.final_portal = <<>> THEN NoPath
                ELSE
                LET last_p == searched.final_portal[1]
                    chain == ChainBack(searched.came_from, last_p)
                IN  IF chain.first \notin DOMAIN searched.start_connections
                    THEN NoPath
                    ELSE SomePath(JoinSegments(
                             <<end_costs[last_p].path>> \o chain.segments
                             \o <<searched.start_connections[chain.first]>>, 1))

(***************************************************************************)
(* An HPAGrid after build, under find_path                                 *)
(***************************************************************************)
\* the grids find_path is called on: two clusters side by side, the second
\* one cut short by the edge of the grid, and two by two clusters
Shapes ==
    {[width |-> 4, height |-> 3, cluster_size |-> 3],
     [width |-> 4, height |-> 4, cluster_size |-> 2]}

\* the cells of a grid
Cells(grid) == [x : 0..(grid.width - 1), y : 0..(grid.height - 1)]

\* set_obstacle(pos, true) for every pos of blocked
RECURSIVE WithWalls(_, _)
WithWalls(grid, blocked) ==
    IF blocked = {} THEN grid
    ELSE LET pos == CHOOSE p \in blocked : TRUE
         IN  WithWalls(GridSetObstacle(grid, pos, TRUE), blocked \ {pos})

\* the maps of a shape: up to MaxBlocked walls
GridMaps(shape) ==
    {WithWalls(GridMapNew(shape.width, shape.height), blocked) :
        blocked \in {b \in SUBSET Cells(GridMapNew(shape.width, shape.height)) :
                        Cardinality(b) <= MaxBlocked}}

\* the 20x20 grid without walls, clusters of 10
OpenScenario == HPAGridNew(GridMapNew(20, 20), 10)

\* the grids built
Built ==
    UNION {UNION {Build(HPAGridNew(grid, shape.cluster_size)) : grid \in GridMaps(shape)} :
              shape \in Shapes}

\* the HPAGrid is built before the first query
InitHPA ==
    /\ tick_count = 0
    /\ export_buffer = <<>>
    /\ flow_field = FlowFieldNew(GridSize, GridSize)
    /\ nav_mesh = <<>>
    /\ agents = <<>>
    /\ snap = <<>>
    /\ snap_state = <<>>
    /\ last \in {[op |-> "build", hpa |-> hpa] : hpa \in Built \cup Build(OpenScenario)}

\* the queries: on the small grids from every cell and two points outside
\* the grid to every such point, on the 20x20 grid across the clusters and
\* inside one
PathQueries(hpa) ==
    IF hpa.grid.width = 20
    THEN {[start |-> IVec2(1, 1), end |-> IVec2(18, 18)],
          [start |-> IVec2(1, 1), end |-> IVec2(8, 8)]}
    ELSE LET points == Cells(hpa.grid)
                       \cup {IVec2(-1, 0), IVec2(0, hpa.grid.height)}
         IN  [start : points, end : points]

\* HPAGrid::find_path; the path it returns is kept in last
CallFindPath(start, end) ==
    /\ last' = [op |-> "find_path", hpa |-> last.hpa, start |-> start,
                 end |-> end, result |-> FindPath(last.hpa, start, end)]
    /\ UNCHANGED <<tick_count, export_buffer, flow_field, nav_mesh, agents, snap,
                   snap_state>>

\* find_path takes &self: a behaviour holds one query of one grid
NextHPA ==
    /\ last.op = "build"
    /\ \E q \in PathQueries(last.hpa) : CallFindPath(q.start, q.end)

SpecHPA == InitHPA /\ [][NextHPA]_vars

\* a returned path starts at start, ends at end, stands on walkable cells
\* only and moves one 4-connected step at a time
ValidPath(grid, start, end, path) ==
    /\ path # <<>>
    /\ path[1] = start
    /\ path[Len(path)] = end
    /\ \A i \in 1..Len(path) : IsWalkable(grid, path[i])
    /\ \A i \in 1..(Len(path) - 1) : Heuristic(path[i], path[i + 1]) = 1

\* C18: every path find_path returns after build starts at start, ends at
\* end, visits only walkable cells, and every consecutive pair of cells
\* differs by exactly one 4-connected step: no join point is repeated and
\* there is no jump where the segments are concatenated.
C18_PathValid ==
    (last.op = "find_path" /\ last.result.found) =>
        ValidPath(last.hpa.grid, last.start, last.end, last.result.path)

\* a path between clusters that touch at a corner only, round a wall
C18_Witness ==
    /\ last.op = "find_path"
    /\ last.result.found
    /\ last.hpa.cluster_size = 2
    /\ last.start = IVec2(0, 0)
    /\ last.end = IVec2(3, 3)
    /\ ~IsWalkable(last.hpa.grid, IVec2(1, 1))
    /\ Len(last.result.path) = 7

\* C19: on the 20x20 grid with clusters of 10 and no walls, after build,
\* find_path((1,1),(18,18)) returns a path of 35 cells from (1,1) to (18,18)
\* whose every step is 4-connected and walkable.
C19_CrossClusterScenario ==
    (/\ last.op = "find_path"
     /\ last.hpa.grid = GridMapNew(20, 20)
     /\ last.hpa.cluster_size = 10
     /\ last.start = IVec2(1, 1)
     /\ last.end = IVec2(18, 18)) =>
        /\ last.result.found
        /\ Len(last.result.path) = 35
        /\ ValidPath(last.hpa.grid, IVec2(1, 1), IVec2(18, 18), last.result.path)

\* the query of the scenario has been answered, through the portals at the
\* corner the four clusters meet in
C19_Witness ==
    /\ last.op = "find_path"
    /\ last.hpa.grid = GridMapNew(20, 20)
    /\ last.hpa.cluster_size = 10
    /\ last.start = IVec2(1, 1)
    /\ last.end = IVec2(18, 18)
    /\ last.result.found
    /\ \E i \in 1..Len(last.result.path) : last.result.path[i] = IVec2(9, 9)
    /\ \E i \in 1..Len(last.result.path) : last.result.path[i] = IVec2(10, 10)

\* one round of flooding: the walkable cells next to the frontier that are
\* not in seen are the next frontier; fl = [seen, frontier], sets of cells
FloodRound(grid, fl) ==
    LET next == {IAdd(c, d) : c \in fl.frontier,
                              d \in {LocalDirs[k] : k \in 1..Len(LocalDirs)}}
        new == {n \in next : IsWalkable(grid, n) /\ n \notin fl.seen}
    IN  [seen |-> fl.seen \cup new, frontier |-> new]

\* up to n rounds (the halves are run one after the other)
RECURSIVE FloodRounds(_, _, _)
FloodRounds(grid, fl, n) ==
    IF fl.frontier = {} \/ n = 0 THEN fl
    ELSE IF n = 1 THEN FloodRound(grid, fl)
    ELSE FloodRounds(grid, FloodRounds(grid, fl, n \div 2), n - n \div 2)

\* the cells reachable from start through 4-connected walkable cells of the
\* whole grid
Flood(grid, start) ==
    FloodRounds(grid, [seen |-> {start}, frontier |-> {start}],
                grid.width * grid.height).seen

\* end is reachable from start, both walkable
Reachable(grid, start, end) ==
    /\ IsWalkable(grid, start)
    /\ IsWalkable(grid, end)
    /\ end \in Flood(grid, start)

\* C20: find_path returns none exactly for the unreachable queries: when an
\* endpoint is not walkable or out of bounds, and for walkable endpoints only
\* when end is not reachable from start through 4-connected walkable cells
\* of the whole grid.
C20_AbsentOnlyIfUnreachable ==
    last.op = "find_path" =>
        (~last.result.found <=> ~Reachable(last.hpa.grid, last.start, last.end))

(***************************************************************************)
(* pathfinding/navmesh.rs: NavMesh                                         *)
(*                                                                         *)
(* A triangle is [id, vertices, neighbors]: vertices a sequence of three   *)
(* DVec2, neighbors a sequence of three Option<usize>, <<>> for None and   *)
(* <<n>> for Some(n).  Ids and indices count from 0 as in the crate, so    *)
(* triangle n is triangles[n + 1].  The signed areas are polynomials of    *)
(* the coordinates and are exact here; centers and distances are rounded   *)
(* to the unit.                                                            *)
(***************************************************************************)
\* Triangle::center
Center(tri) ==
    DVec2(RDiv(tri.vertices[1].x + tri.vertices[2].x + tri.vertices[3].x, 3),
          RDiv(tri.vertices[1].y + tri.vertices[2].y + tri.vertices[3].y, 3))

\* DVec2::distance
Distance(a, b) == Sqrt(LengthSquared(VSub(a, b)))

\* the nested fn sign of point_in_triangle
Sign(p1, p2, p3) ==
    (p1.x - p3.x) * (p2.y - p3.y) - (p2.x - p3.x) * (p1.y - p3.y)

\* NavMesh::point_in_triangle
PointInTriangle(p, v) ==
    LET d1 == Sign(p, v[1], v[2])
        d2 == Sign(p, v[2], v[3])
        d3 == Sign(p, v[3], v[1])
        has_neg == d1 < 0 \/ d2 < 0 \/ d3 < 0
        has_pos == d1 > 0 \/ d2 > 0 \/ d3 > 0
    IN  ~(has_neg /\ has_pos)

\* NavMesh::find_triangle: the id of the first triangle holding the point,
\* as an Option
FindTriangle(triangles, point) ==
    LET holding == SelectSeq(triangles,
                             LAMBDA tri : PointInTriangle(point, tri.vertices))
    IN  IF holding = <<>> THEN <<>> ELSE <<holding[1].id>>

\* the get_neighbors closure of compute_a_star for triangle idx
TriangleNeighbors(triangles, idx) ==
    LET current_center == Center(triangles[idx + 1])
        present == SelectSeq(triangles[idx + 1].neighbors, LAMBDA n : n # <<>>)
    IN  [k \in 1..Len(present) |->
            <<present[k][1],
              Distance(current_center, Center(triangles[present[k][1] + 1]))>>]

\* NavMesh::compute_a_star: the triangle indices of the corridor, empty when
\* the end triangle is not reached
ComputeAStar(triangles, start_idx, end_idx) ==
    LET ids == 0..(Len(triangles) - 1)
        end_center == Center(triangles[end_idx + 1])
        get_neighbors == [idx \in ids |-> TriangleNeighbors(triangles, idx)]
        get_heuristic == [idx \in ids |->
                             Distance(Center(triangles[idx + 1]), end_center)]
        result == CHOOSE r \in AStar(start_idx, get_neighbors, get_heuristic,
                                     {end_idx}, "one") : TRUE
    IN  IF result.found THEN result.path ELSE <<>>

\* NavMesh::tri_area_2
TriArea2(a, b, c) == (b.x - a.x) * (c.y - a.y) - (b.y - a.y) * (c.x - a.x)

\* v.distance_squared(w) < epsilon with epsilon = 1e-5, which is
\* Scale * Scale / 100000 units squared
NearVertex(v, w) == LengthSquared(VSub(v, w)) <= (Scale * Scale - 1) \div 100000

\* the vertices find_shared_edge collects: v_curr once for every v_next it
\* is near to, in the order of the two loops
SharedVertices(curr, next) ==
    LET pairs == [k \in 1..9 |-> [i |-> ((k - 1) \div 3) + 1, j |-> ((k - 1) % 3) + 1]]
        near == SelectSeq(pairs, LAMBDA q :
                    NearVertex(curr.vertices[q.i], next.vertices[q.j]))
    IN  [k \in 1..Len(near) |-> curr.vertices[near[k].i]]

\* iter().position(..): the index from 0 of the first vertex of tri near v
PositionOf(tri, v) ==
    (CHOOSE k \in 1..3 : /\ NearVertex(tri.vertices[k], v)
                         /\ \A m \in 1..(k - 1) : ~NearVertex(tri.vertices[m], v)) - 1

\* NavMesh::find_shared_edge: Some((left, right)) as a one-element sequence,
\* None as <<>>
FindSharedEdge(curr, next) ==
    LET shared == SharedVertices(curr, next)
    IN  IF Len(shared) # 2 THEN <<>>
        ELSE IF (PositionOf(curr, shared[1]) + 1) % 3 = PositionOf(curr, shared[2])
        THEN <<[left |-> shared[2], right |-> shared[1]]>>
        ELSE <<[left |-> shared[1], right |-> shared[2]]>>

\* step 1 of string_pulling: the portals of the corridor from its k-th
\* triangle on, then the end point as a portal of width 0
RECURSIVE BuildPortals(_, _, _, _)
BuildPortals(triangles, end, tri_path, k) ==
    IF k >= Len(tri_path) THEN <<[left |-> end, right |-> end]>>
    ELSE FindSharedEdge(triangles[tri_path[k] + 1], triangles[tri_path[k + 1] + 1])
         \o BuildPortals(triangles, end, tri_path, k + 1)

\* the funnel of string_pulling as the loop is entered: the apex at start,
\* the sides on the first portal, no corner emitted
FunnelNew(start, portals) ==
    [points |-> <<start>>, portal_apex |-> start,
     portal_left |-> portals[1].left, portal_right |-> portals[1].right,
     left_index |-> 0, right_index |-> 0, i |-> 0]

\* faulty variant of the corner: the scan restarts at the corner's portal
\* itself and the side indices are left where they were
EmitCornerNoAdvance(f, corner, index) ==
    [f EXCEPT !.points = Append(@, corner), !.portal_apex = corner,
              !.portal_left = corner, !.portal_right = corner,
              !.i = index]

\* a side crossed the other one: the other side's vertex becomes a corner
\* and the apex, and the scan restarts after the portal it was tightened at
EmitCorner(f, corner, index) ==
    [f EXCEPT !.points = Append(@, corner), !.portal_apex = corner,
              !.portal_left = corner, !.portal_right = corner,
              !.left_index = index, !.right_index = index, !.i = index + 1]

\* one iteration of `while i < portals.len()`
FunnelIteration(portals, f) ==
    LET left == portals[f.i + 1].left
        right == portals[f.i + 1].right
        right_inside == TriArea2(f.portal_apex, f.portal_right, right) <= 0
        right_tightens == \/ f.portal_apex = f.portal_right
                          \/ TriArea2(f.portal_apex, f.portal_left, right) > 0
        g == IF right_inside /\ right_tightens
             THEN [f EXCEPT !.portal_right = right, !.right_index = f.i]
             ELSE f
        left_inside == TriArea2(g.portal_apex, g.portal_left, left) >= 0
        left_tightens == \/ g.portal_apex = g.portal_left
                         \/ TriArea2(g.portal_apex, g.portal_right, left) < 0
        h == IF left_inside /\ left_tightens
             THEN [g EXCEPT !.portal_left = left, !.left_index = g.i]
             ELSE g
    IN  IF right_inside /\ ~right_tightens
        THEN EmitCorner(f, f.portal_left, f.left_index)
        ELSE IF left_inside /\ ~left_tightens
        THEN EmitCorner(g, g.portal_right, g.right_index)
        ELSE [h EXCEPT !.i = @ + 1]

\* NavMesh::find_path up to the funnel loop: the answer when it returns
\* before string_pulling, else the portals of the corridor
BeforeFunnel(triangles, start, end) ==
    LET start_tri_idx == FindTriangle(triangles, start)
        end_tri_idx == FindTriangle(triangles, end)
        path_indices == ComputeAStar(triangles, start_tri_idx[1], end_tri_idx[1])
    IN  IF start_tri_idx = <<>> \/ end_tri_idx = <<>>
        THEN [returned |-> TRUE, path |-> <<>>, tri_path |-> <<>>, portals |-> <<>>]
        ELSE IF start_tri_idx = end_tri_idx
        THEN [returned |-> TRUE, path |-> <<start, end>>, tri_path |-> <<>>,
              portals |-> <<>>]
        ELSE IF path_indices = <<>>
        THEN [returned |-> TRUE, path |-> <<>>, tri_path |-> <<>>, portals |-> <<>>]
        ELSE [returned |-> FALSE, path |-> <<>>, tri_path |-> path_indices,
              portals |-> BuildPortals(triangles, end, path_indices, 1)]

(***************************************************************************)
(* A NavMesh under find_path.  The mesh is a block of squares of side      *)
(* SquareSide, each cut into two counter-clockwise triangles along the     *)
(* diagonal from its lower right to its upper left corner; the call runs   *)
(* one iteration of the funnel loop per step.                              *)
(***************************************************************************)
\* a point given in whole units of length
Point(x, y) == DVec2(x * Scale, y * Scale)

\* the squares, by the coordinate of their lower left corner in squares,
\* row after row
SquareList(squares, w, h) ==
    SelectSeq([n \in 1..(w * h) |-> [x |-> (n - 1) % w, y |-> (n - 1) \div w]],
              LAMBDA sq : sq \in squares)

\* index from 0 of the lower triangle of square sq in the list, <<>> when
\* the mesh has no such square
LowerOf(list, sq) ==
    IF \E k \in 1..Len(list) : list[k] = sq
    THEN <<2 * ((CHOOSE k \in 1..Len(list) : list[k] = sq) - 1)>>
    ELSE <<>>

UpperOf(list, sq) ==
    IF LowerOf(list, sq) = <<>> THEN <<>> ELSE <<LowerOf(list, sq)[1] + 1>>

\* the two triangles of square list[k]
TrianglesOf(list, k) ==
    LET sq == list[k]
        x0 == sq.x * SquareSide
        y0 == sq.y * SquareSide
        x1 == x0 + SquareSide
        y1 == y0 + SquareSide
    IN  <<[id |-> 2 * (k - 1),
           vertices |-> <<Point(x0, y0), Point(x1, y0), Point(x0, y1)>>,
           neighbors |-> <<UpperOf(list, [x |-> sq.x, y |-> sq.y - 1]),
                           <<2 * (k - 1) + 1>>,
                           UpperOf(list, [x |-> sq.x - 1, y |-> sq.y])>>],
          [id |-> 2 * (k - 1) + 1,
           vertices |-> <<Point(x1, y0), Point(x1, y1), Point(x0, y1)>>,
           neighbors |-> <<LowerOf(list, [x |-> sq.x + 1, y |-> sq.y]),
                           LowerOf(list, [x |-> sq.x, y |-> sq.y + 1]),
                           <<2 * (k - 1)>>>>]>>

\* the triangles of the squares in list, two per square
RECURSIVE TrianglesFrom(_, _)
TrianglesFrom(list, k) ==
    IF k > Len(list) THEN <<>>
    ELSE TrianglesOf(list, k) \o TrianglesFrom(list, k + 1)

\* the squares of a block w wide and h high
Block(w, h) == [x : 0..(w - 1), y : 0..(h - 1)]

\* the meshes find_path is called on: every block up to MeshSide squares a
\* side, whole or with one square taken out
NavMeshes ==
    UNION {{TrianglesFrom(SquareList(Block(w, h), w, h), 1)} \cup
           {TrianglesFrom(SquareList(Block(w, h) \ {sq}, w, h), 1) : sq \in Block(w, h)} :
              w \in 1..MeshSide, h \in 1..MeshSide}

\* the points find_path is called with: near the lower left and near the
\* upper right corner of every square, the corner shared by the first
\* squares, and a point off every mesh
NavPoints ==
    UNION {{Point(sq.x * SquareSide + 5, sq.y * SquareSide + 5),
            Point(sq.x * SquareSide + SquareSide - 5, sq.y * SquareSide + SquareSide - 5)} :
              sq \in Block(MeshSide, MeshSide)}
    \cup {Point(SquareSide, SquareSide), Point(-5, -5)}

InitNavMesh ==
    /\ tick_count = 0
    /\ export_buffer = <<>>
    /\ flow_field = FlowFieldNew(GridSize, GridSize)
    /\ nav_mesh \in NavMeshes
    /\ agents = <<>>
    /\ snap = <<>>
    /\ snap_state = <<>>
    /\ last = [op |-> "new"]

\* NavMesh::find_path is entered and runs up to the funnel loop
NavFindPath(start, end) ==
    /\ last.op = "new"
    /\ LET b == BeforeFunnel(nav_mesh, start, end)
       IN  last' = [op |-> "find_path", start |-> start, end |-> end,
                    pc |-> IF b.returned THEN "done" ELSE "funnel",
                    path |-> b.path, tri_path |-> b.tri_path,
                    portals |-> b.portals,
                    funnel |-> IF b.returned THEN <<>>
                               ELSE FunnelNew(start, b.portals),
                    restarted |-> 0]
    /\ UNCHANGED <<tick_count, export_buffer, flow_field, nav_mesh, agents,
                   snap, snap_state>>

\* one iteration of the funnel loop; restarted keeps the index the scan was
\* last restarted from
FunnelScan ==
    /\ last.op = "find_path" /\ last.pc = "funnel"
    /\ last.funnel.i < Len(last.portals)
    /\ LET f == FunnelIteration(last.portals, last.funnel)
       IN  last' = [last EXCEPT !.funnel = f,
                                !.restarted = IF Len(f.points) > Len(last.funnel.points)
                                              THEN f.i ELSE @]
    /\ UNCHANGED <<tick_count, export_buffer, flow_field, nav_mesh, agents,
                   snap, snap_state>>

\* the loop is left: the end point is pushed and the points are returned
FunnelReturn ==
    /\ last.op = "find_path" /\ last.pc = "funnel"
    /\ last.funnel.i >= Len(last.portals)
    /\ last' = [last EXCEPT !.pc = "done",
                            !.path = Append(last.funnel.points, last.end)]
    /\ UNCHANGED <<tick_count, export_buffer, flow_field, nav_mesh, agents,
                   snap, snap_state>>

NextNavMesh ==
    \/ \E start \in NavPoints, end \in NavPoints : NavFindPath(start, end)
    \/ FunnelScan
    \/ FunnelReturn

SpecNavMesh == InitNavMesh /\ [][NextNavMesh]_vars

\* the funnel loop is scheduled until it is left: find_path is one call
FairSpecNavMesh == SpecNavMesh /\ WF_vars(FunnelScan) /\ WF_vars(FunnelReturn)

\* the segment from a to b passes between the two ends of portal p, the
\* left end on its left or on it and the right end on its right or on it
CrossesPortal(a, b, p) == TriArea2(a, b, p.left) >= 0 /\ TriArea2(a, b, p.right) <= 0

\* C21: when the straight segment from start to end crosses every shared
\* edge of the triangle corridor, find_path returns exactly [start, end]; so
\* it does for (5,5) -> (45,45) on the two triangles of one square
C21_FunnelCollapses ==
    (/\ last.op = "find_path" /\ last.pc = "done" /\ last.tri_path # <<>>
     /\ \A k \in 1..(Len(last.portals) - 1) :
           CrossesPortal(last.start, last.end, last.portals[k]))
    => last.path = <<last.start, last.end>>

\* C30: find_path terminates: the funnel loop emits at most one corner per
\* portal, every restart of its scan is from a strictly larger index than
\* the one before, and a call that was entered returns
C30_FindPathTerminates ==
    /\ [](last.op = "find_path" /\ last.pc = "funnel"
            => Len(last.funnel.points) - 1 <= Len(last.portals))
    /\ [][(/\ last.op = "find_path" /\ last.pc = "funnel" /\ last'.pc = "funnel"
           /\ Len(last'.funnel.points) > Len(last.funnel.points))
          => last'.funnel.i > last.restarted]_vars
    /\ (last.op = "find_path" ~> (last.op = "find_path" /\ last.pc = "done"))

\* a call has returned after its scan was restarted twice, the second time
\* past the second portal
C30_Witness ==
    /\ last.op = "find_path" /\ last.pc = "done"
    /\ Len(last.path) >= 4
    /\ last.restarted >= 2

(***************************************************************************)
(* The avoidance solver under preferred velocities that are held: steps 3  *)
(* and 4 of tick on two agents whose pref_velocity is set once, as the     *)
(* pathfinder would set it every tick.                                     *)
(***************************************************************************)
\* where the second agent starts, in half units of length
StartOffsets == [x : 2..(2 * HeadOnGap), y : 0..2]

\* the pairs of agents: A at the origin wanting to go right at full speed,
\* B to its right wanting to go left or to stand, both at rest or both
\* already at their preferred velocity
AgentPairs ==
    {<<Agent(1, ZERO, IF moving THEN DVec2(Scale, 0) ELSE ZERO,
             Scale \div 2, Scale, DVec2(Scale, 0)),
       Agent(2, DVec2(o.x * (Scale \div 2), o.y * (Scale \div 2)),
             IF moving THEN pref ELSE ZERO, Scale \div 2, Scale, pref)>> :
        o \in StartOffsets, pref \in {DVec2(-Scale, 0), ZERO}, moving \in BOOLEAN}

\* the head-on pair: A at (0,0) and B at (HeadOnGap,0), preferred velocities
\* (1,0) and (-1,0), both at rest
HeadOn ==
    <<Agent(1, ZERO, ZERO, Scale \div 2, Scale, DVec2(Scale, 0)),
      Agent(2, DVec2(HeadOnGap * Scale, 0), ZERO, Scale \div 2, Scale,
            DVec2(-Scale, 0))>>

InitRvo ==
    /\ tick_count = 0
    /\ export_buffer = <<>>
    /\ flow_field = FlowFieldNew(GridSize, GridSize)
    /\ nav_mesh = <<>>
    /\ agents \in AgentPairs
    /\ snap = <<>>
    /\ snap_state = <<>>
    /\ last = [op |-> "new", first |-> agents, before |-> agents]

\* steps 3 and 4 of tick: every new velocity, then the write-back; first
\* keeps the agents the run began with, before the agents of the step
AvoidanceStep ==
    /\ tick_count < HeadOnSteps
    /\ tick_count' = tick_count + 1
    /\ agents' = Integrate(agents, NewVelocities(agents))
    /\ last' = [op |-> "step", first |-> last.first, before |-> agents]
    /\ UNCHANGED <<export_buffer, flow_field, nav_mesh, snap, snap_state>>

NextRvo == AvoidanceStep

SpecRvo == InitRvo /\ [][NextRvo]_vars

\* C22: head-on, after one step neither agent's velocity is its preferred
\* velocity, and after HeadOnSteps steps the two agents do not overlap
C22_HeadOnAvoids ==
    last.first = HeadOn =>
        /\ tick_count = 1 =>
              \A i \in 1..2 : agents[i].velocity # agents[i].pref_velocity
        /\ tick_count = HeadOnSteps =>
              LengthSquared(VSub(agents[1].position, agents[2].position))
                  >= Scale * Scale

\* the perpendicular of rel_pos the claim steers agent a along, past other
SteerSide(a, other) ==
    LET rel_pos == VSub(other.position, a.position)
        tangent == DVec2(-rel_pos.y, rel_pos.x)
    IN  IF Dot(a.pref_velocity, tangent) >= 0 THEN tangent ELSE VNeg(tangent)

\* other is a neighbour of a that does not overlap it, is within range and
\* is being approached
ApproachingInRange(a, other) ==
    LET rel_pos == VSub(other.position, a.position)
        combined_radius == a.radius + other.radius
    IN  /\ LengthSquared(rel_pos) >= combined_radius * combined_radius
        /\ LengthSquared(rel_pos) <= (2 * combined_radius) * (2 * combined_radius)
        /\ Dot(VSub(a.velocity, other.velocity), rel_pos) > 0

\* C24: the lateral impulse an approaching neighbour in range adds to the
\* preferred velocity points to the perpendicular of rel_pos with a positive
\* dot product with that velocity, and to the positive perpendicular
\* (-rel_pos.y, rel_pos.x) when the dot product is zero
C24_SteersToPositiveSide ==
    last.op = "step" =>
        \A i \in 1..2 :
            LET a == last.before[i]
                other == last.before[3 - i]
                impulse == VSub(FoldNeighborsFrom(last.before, i, 1, a.pref_velocity),
                                a.pref_velocity)
            IN  ApproachingInRange(a, other)
                    => /\ Dot(impulse, SteerSide(a, other)) > 0
                       /\ agents[i].velocity =
                              ClampToMaxSpeed(VAdd(a.pref_velocity, impulse), a.max_speed)

(***************************************************************************)
(* tick on two agents: the driver after two add_agent calls, under tick    *)
(***************************************************************************)
\* the two agents add_agent was called with: radius 0.5, the first on the
\* left column of the field, the second one or two cells to its right
CrowdPairs ==
    {<<Agent(1, DVec2(0, ay * Scale), ZERO, Scale \div 2, Scale, ZERO),
       Agent(2, DVec2(bx * Scale, by * Scale), ZERO, Scale \div 2, speed, ZERO)>> :
        ay \in 0..1, bx \in 1..2, by \in 0..1, speed \in {Scale, Scale \div 2}}

CrowdDocs ==
    {Array(<<>>), Array(<<FlowMove(2 * Scale, 0)>>), Array(<<DirectMove(1, 0, 0)>>)}

InitCrowd ==
    /\ tick_count = 0
    /\ export_buffer = <<>>
    /\ flow_field = FlowFieldNew(GridSize, GridSize)
    /\ nav_mesh = <<>>
    /\ agents \in CrowdPairs
    /\ snap = <<>>
    /\ snap_state = <<>>
    /\ last = [op |-> "add_agent", id |-> 2]

NextCrowd == \E doc \in CrowdDocs : Tick(doc)

SpecCrowd == InitCrowd /\ [][NextCrowd]_vars

\* C23: in every tick each agent's new velocity is the avoidance solver's
\* answer on the agents as they stand after the commands and the assignment
\* of the preferred velocities, whatever was written for the agents before
\* it, and its new position is its old one moved by that velocity
C23_DeferredWriteBack ==
    [][last'.op = "tick" =>
          LET st == AfterInputs(flow_field, agents, last'.doc)
              staged == SetPreferredVelocities(st.flow_field, st.agents)
          IN  /\ Len(agents') = Len(staged)
              /\ \A i \in 1..Len(staged) :
                    /\ agents'[i].velocity = ComputeNewVelocity(staged, i)
                    /\ agents'[i].position =
                           VAdd(staged[i].position, agents'[i].velocity)]_vars

\* a tick in which the second agent was steered by the first while the
\* first, written before it, moved
C23_Witness ==
    /\ last.op = "tick"
    /\ Len(agents) = 2
    /\ agents[1].velocity # ZERO
    /\ agents[2].velocity # agents[2].pref_velocity

\* C25: in every state set_obstacle and generate_target calls lead to, every
\* wall cell (cost 255) has the zero gradient and so has the target cell (the
\* cell of integration 0)
C25_WallsAndTargetHaveNoGradient ==
    \A c \in DOMAIN flow_field.costs :
        (flow_field.costs[c] = WALL \/ flow_field.integration[c] = 0)
            => flow_field.vectors[c] = ZERO

\* the cells of the cluster with coordinate c
InCluster(hpa, c, pos) ==
    /\ pos.x >= c.x * hpa.cluster_size /\ pos.x < (c.x + 1) * hpa.cluster_size
    /\ pos.y >= c.y * hpa.cluster_size /\ pos.y < (c.y + 1) * hpa.cluster_size

\* edge, in the adjacency list of portal src, is as the abstract graph
\* requires it
WellFormedEdge(hpa, src, edge) ==
    LET dst == hpa.portals[edge.to + 1]
        path == edge.cached_path
    IN  IF edge.is_inter_cluster
        THEN /\ edge.cost = 1
             /\ path = <<>>
             /\ Heuristic(src.pos, dst.pos) = 1
             /\ src.cluster_xy # dst.cluster_xy
        ELSE /\ src.cluster_xy = dst.cluster_xy
             /\ path # <<>>
             /\ path[1] = src.pos
             /\ path[Len(path)] = dst.pos
             /\ \A k \in 1..Len(path) :
                   IsWalkable(hpa.grid, path[k]) /\ InCluster(hpa, src.cluster_xy, path[k])
             /\ edge.cost = Len(path) - 1

\* C26: after build the adjacency list has one entry per portal; an
\* inter-cluster edge has cost 1 and no cached path and joins portals one
\* step apart in different clusters; an intra-cluster edge joins portals of
\* one cluster and caches a non-empty path from the source to the target,
\* inside the cluster on walkable cells, of cost its length minus 1
C26_GraphWellFormed ==
    last.op = "build" =>
        /\ Len(last.hpa.graph) = Len(last.hpa.portals)
        /\ \A p \in 1..Len(last.hpa.graph) :
              \A e \in 1..Len(last.hpa.graph[p]) :
                  WellFormedEdge(last.hpa, last.hpa.portals[p], last.hpa.graph[p][e])

\* a grid with walls whose graph has an edge across clusters and an edge
\* inside a cluster with a path that turns round a wall
C26_Witness ==
    /\ last.op = "build"
    /\ \E p \in 1..Len(last.hpa.graph) :
          /\ \E e \in 1..Len(last.hpa.graph[p]) : last.hpa.graph[p][e].is_inter_cluster
          /\ \E e \in 1..Len(last.hpa.graph[p]) :
                LET edge == last.hpa.graph[p][e]
                IN  /\ ~edge.is_inter_cluster
                    /\ edge.cost > Heuristic(last.hpa.portals[p].pos,
                                             last.hpa.portals[edge.to + 1].pos)

\* C27: whatever order build_intra_cluster_edges walks cluster_lookup in,
\* build leaves the same portals and the same ordered edge list for every
\* portal, hence the same answers of find_path
C27_BuildOrderIndependent ==
    last.op = "build" =>
        Build(HPAGridNew(last.hpa.grid, last.hpa.cluster_size)) = {last.hpa}

\* a grid of four clusters, three of them at least with edges of their own
C27_Witness ==
    /\ last.op = "build"
    /\ Cardinality(DOMAIN last.hpa.cluster_lookup) = 4
    /\ Cardinality({last.hpa.portals[p].cluster_xy :
                       p \in {q \in 1..Len(last.hpa.graph) :
                                 \E e \in 1..Len(last.hpa.graph[q]) :
                                     ~last.hpa.graph[q][e].is_inter_cluster}}) >= 3

\* C28: after build the inter-cluster edges are symmetric by portal id and
\* no two portals stand on the same cell
C28_InterEdgesSymmetricNoTwins ==
    last.op = "build" =>
        /\ \A p \in 1..Len(last.hpa.graph) :
              \A e \in 1..Len(last.hpa.graph[p]) :
                  LET edge == last.hpa.graph[p][e]
                  IN  edge.is_inter_cluster =>
                          \E back \in 1..Len(last.hpa.graph[edge.to + 1]) :
                              /\ last.hpa.graph[edge.to + 1][back].is_inter_cluster
                              /\ last.hpa.graph[edge.to + 1][back].to = p - 1
        /\ \A p, q \in 1..Len(last.hpa.portals) :
              p # q => last.hpa.portals[p].pos # last.hpa.portals[q].pos

(***************************************************************************)
(* One agent following the flow field                                      *)
(***************************************************************************)
\* ticks taken in a run of the single agent: the idle ticks before the
\* command, the longest way across the grid, and ticks at rest
FlowTicks == MaxTick + 2 * GridSize

\* the cells of the simulation's grid
GridCells == [x : 0..(GridSize - 1), y : 0..(GridSize - 1)]

\* targets of the FLOW command: a cell's centre or a point that rounds to it
FlowTargets ==
    {DVec2(c.x * Scale + dx, c.y * Scale + dy) :
        c \in GridCells, dx \in {0, Scale \div 4}, dy \in {0, -(Scale \div 4)}}

\* the cell generate_target and get_direction round a point to
CellOf(p) == DVec2(RoundAsUsize(p.x), RoundAsUsize(p.y))

\* Simulation::new, then add_agent of one agent of max_speed 1 on a cell
InitFlowMove ==
    /\ tick_count = 0
    /\ export_buffer = <<>>
    /\ flow_field = FlowFieldNew(GridSize, GridSize)
    /\ nav_mesh = <<>>
    /\ \E c \in GridCells :
          agents = RvoAddAgent(<<>>, Agent(1, DVec2(c.x * Scale, c.y * Scale), ZERO,
                                           Scale \div 2, Scale, ZERO))
    /\ snap = <<>>
    /\ snap_state = <<>>
    /\ last = [op |-> "add_agent", id |-> 1]

\* a tick with no command before the FLOW command is sent
IdleTick ==
    /\ last.op = "add_agent"
    /\ TickWithin(Array(<<>>), MaxTick)
    /\ last' = last

\* the tick that carries the FLOW command
CommandTick(target) ==
    /\ last.op = "add_agent"
    /\ TickWithin(Array(<<FlowMove(target.x, target.y)>>), FlowTicks)
    /\ last' = [op |-> "tick", doc |-> Array(<<FlowMove(target.x, target.y)>>),
                start |-> CellOf(agents[1].position), target |-> CellOf(target),
                issued |-> tick_count]

\* a tick with no command after the FLOW command
FollowTick ==
    /\ last.op = "tick"
    /\ TickWithin(Array(<<>>), FlowTicks)
    /\ last' = [last EXCEPT !.doc = Array(<<>>)]

NextFlowMove ==
    \/ IdleTick
    \/ \E target \in FlowTargets : CommandTick(target)
    \/ FollowTick

SpecFlowMove == InitFlowMove /\ [][NextFlowMove]_vars

\* the guard of FollowTick, the one thing that can disable it: tick has no
\* early return
FollowTickEnabled == last.op = "tick" /\ tick_count < FlowTicks

\* the host ticks every frame: weak fairness of FollowTick, its enabling
\* condition written out as its guard
FairSpecFlowMove ==
    SpecFlowMove /\ ([]<>(~FollowTickEnabled) \/ []<><<FollowTick>>_vars)

\* steps between two cells
Manhattan(a, b) ==
    (IF a.x >= b.x THEN a.x - b.x ELSE b.x - a.x)
        + (IF a.y >= b.y THEN a.y - b.y ELSE b.y - a.y)

\* the integration value of the cell under the agent
IntegrationUnder(ff, a) ==
    ff.integration[CellOf(a.position).y * ff.width + CellOf(a.position).x]

\* the agent stands on the centre of the target cell with zero velocity
AtRest ==
    /\ last.op = "tick"
    /\ agents[1].position = DVec2(last.target.x * Scale, last.target.y * Scale)
    /\ agents[1].velocity = ZERO

\* after t ticks from the command the agent stands on a cell's centre,
\* Max(0, d - t) steps from the target, d the distance at the command
OnSchedule ==
    last.op = "tick" =>
        LET t == tick_count - last.issued
            d == Manhattan(last.start, last.target)
            left == IF t >= d THEN 0 ELSE d - t
        IN  /\ agents[1].position.x % Scale = 0
            /\ agents[1].position.y % Scale = 0
            /\ Manhattan(CellOf(agents[1].position), last.target) = left
            /\ IntegrationUnder(flow_field, agents[1]) = left
            /\ t > d => AtRest

\* a tick after the command takes the agent one cell on, to a strictly
\* smaller integration value, or leaves it on the target
DescendsOrRests ==
    (last.op = "tick" /\ last'.op = "tick" /\ tick_count' = tick_count + 1) =>
        IF CellOf(agents[1].position) = last.target
        THEN agents'[1].position = agents[1].position /\ agents'[1].velocity = ZERO
        ELSE /\ Manhattan(CellOf(agents'[1].position), CellOf(agents[1].position)) = 1
             /\ IntegrationUnder(flow_field', agents'[1])
                    < IntegrationUnder(flow_field, agents[1])

\* C29: a single agent of max_speed 1 on a cell of the grid, once a tick
\* carries a FLOW MOVE for an in-bounds target, moves one cell a tick along
\* strictly decreasing integration values, is on the target cell after as
\* many ticks as the Manhattan distance, and with empty commands from then
\* on has zero velocity and stays on the target cell for ever
C29_FlowReachesTargetAndStays ==
    /\ []OnSchedule
    /\ [][DescendsOrRests]_vars
    /\ (last.op = "tick") ~> []AtRest

\* the agent crossed the grid after idle ticks and has rested for a tick
C29_Witness ==
    /\ AtRest
    /\ last.issued >= 1
    /\ Manhattan(last.start, last.target) >= 3
    /\ tick_count - last.issued > Manhattan(last.start, last.target) + 1
====
